---- MODULE Spec2Model ----
(***************************************************************************)
(* Model of the heatmap pipeline of the ChestXRay AI Diagnostic System:    *)
(* HeatmapGenerator (src/ai/heatmap_generator.py) and the code around it.  *)
(*                                                                         *)
(* The module holds several specifications, one per operation family:      *)
(*   SpecBatch    generate_all_heatmaps (the per-class loop)               *)
(*   SpecHeatmap  generate_heatmap (clip, normalise, blur)                 *)
(*   SpecCombined create_combined_heatmap (weighted average)               *)
(*   SpecPeak     the peak lookup np.unravel_index(np.argmax(m), m.shape)  *)
(*   SpecGeometry centre, radius and label anchor of the circle overlays   *)
(*   SpecMulti    create_multi_circle_overlay (the loop over the ranking)   *)
(*   SpecCircle   generate_circle_overlay / get_circle_overlay, per pixel   *)
(*   SpecOverlay  overlay_heatmap, per pixel, on images of one row          *)
(*   SpecShape    array shapes and exceptions of the six overlay functions  *)
(*   SpecWindow   MainWindow (src/gui/main_window.py): the user's actions,  *)
(*                the analysis worker threads and the UI callbacks          *)
(* Every specification leaves the variables of the others at their idle    *)
(* values.                                                                 *)
(*                                                                         *)
(* Numbers.  Confidences are integers 0..MaxProb (a confidence is          *)
(* prob / MaxProb).  A real-valued map is a record [num, den]: the value   *)
(* of cell c is num[c] / den; den = 0 stands for the result of a division  *)
(* by zero (NaN / inf cells).                                              *)
(***************************************************************************)
EXTENDS Integers, Sequences, FiniteSets, TLC

\* ------------------------------------------------------------ bounds
\* Largest confidence level of a prediction.
MaxProb == 2
\* Longest known-classes list, and largest classifier output count.
MaxKnown == 2

\* The 224 x 224 target resolution of lines 24 and 51, scaled down to
\* MapH rows and MapW columns.
MapH == 2
MapW == 3
\* Largest attribution value; the smallest is -1.
AttrMax == 2
\* A map of the input families differs from a uniform map in at most
\* MaxSpikes cells.
MaxSpikes == 2

\* Largest side of a map shape and of an image shape in SpecGeometry; the
\* shapes 7 (the classifier's feature map) and 224 are always included.
MaxMapDim == 3
MaxImgDim == 4
\* Largest max_circles argument of create_multi_circle_overlay.
MaxCircles == 3
\* Largest width of the one-row images and maps of SpecOverlay.
MaxOvW == 3
\* Largest number of analyses started in one session of SpecWindow.
MaxAnalyses == 2
\* generate_report calls on one generator, and predictions of a report
MaxReports == 2

MaxFindings == 2

\* Class names: one of the classifier's own classes, one dataset-specific
\* class (model_manager.py:16-22) and one name no list needs to hold.
Diseases == {"Pneumonia", "COVID", "Normal"}

\* Outcomes of one call of generate_heatmap inside the batch loop: it
\* returns a map, or a library call in it raises.  ValueError is told apart
\* from every other exception because line 41 catches only ValueError.
GenOutcomes == {"ok", "ValueError", "RuntimeError"}

VARIABLES
    pc,            \* position in generate_all_heatmaps
    predictions,   \* dict: sequence of [name, prob] in insertion order
    pathologies,   \* the known-classes list passed as `pathologies`
    num_outputs,   \* len(self.model.pathologies)
    sorted_preds,  \* line 34
    loop_i,        \* position of the for loop in sorted_preds (1-based)
    heatmaps,      \* dict disease -> map; a map is named by its target_idx
    ranked,        \* second component of the returned tuple
    calls,         \* target_idx of every generate_heatmap call, in order
    processed,     \* diseases the loop body has run for, in order
    gen_raised,    \* diseases whose generate_heatmap call raised ValueError
    hm_pc,         \* position in generate_heatmap
    upsampled,     \* line 25: upsampled[0, 0] as a grid of attribution values
    heatmap,       \* the `heatmap` of generate_heatmap and of the peak
                   \* lookups, a [num, den] map
    cb_pc,         \* position in create_combined_heatmap
    avg_heatmap,   \* line 51-60, a [num, den] map
    total_weight,  \* line 52-57
    combined,      \* the map handed to overlay_heatmap at line 65
    pk_site,       \* the function that looked the peak up last
    peak,          \* <<y, x>> of np.unravel_index(np.argmax(...), shape)
    geo_site,      \* the function that computed the geometry last
    map_shape,     \* heatmap.shape, <<h, w>>
    img_shape,     \* original_img.shape[:2], <<H, W>>
    center,        \* line 128: (x, y) of the disc centre in the image
    radius,        \* line 129
    text_pos,      \* line 114-115: (x, y) of the label anchor
    mc_pc,         \* position in create_multi_circle_overlay
    mc_predictions,\* its `predictions` argument, a dict as item sequence
    mc_heatmaps,   \* its `heatmaps` argument: disease -> peak of its map
    max_circles,   \* its `max_circles` argument
    sorted_diseases, \* line 100
    mc_i,          \* the index i of enumerate, line 106
    drawn,         \* the discs blended into `result`, in drawing order
    gc_calls,      \* number of circle overlay calls made on the inputs below
    gc_site,       \* the function called last
    gc_channel,    \* the channel (1 = B, 2 = G, 3 = R) the model follows
    original_img,  \* the image argument: [h, w, px], px the grid of the
                   \* pixel values of channel gc_channel
    gc_disease,    \* the class name argument
    gc_heatmap,    \* the map argument: [given, shape, peak]; given is
                   \* "map", "None", or "absent" when the collection of
                   \* get_circle_overlay lacks the key
    gc_color,      \* line 141
    gc_center,     \* line 128
    gc_radius,     \* line 129
    gc_result,     \* the image returned by the last call
    gc_first,      \* the image returned by the first call
    gc_rng,        \* values drawn so far from the process-wide generator of
                   \* the `random` module (line 9)
    ov_pc,         \* position in overlay_heatmap
    ov_alpha,      \* the `alpha` argument, in units of 1 / AlphaDen
    ov_channel,    \* the channel (1 = B, 2 = G, 3 = R) the model follows
    ov_cast,       \* what np.uint8 makes of a value outside 0..255
    ov_img,        \* the row of original_img, pixel values of ov_channel
    ov_map,        \* the row of the map, in units of 1 / HeatDen
    original_hr,   \* line 72
    heatmap_hr,    \* line 73, in units of 1 / (CubicDen * HeatDen)
    colored,       \* line 76
    overlay,       \* line 78
    ov_result,     \* line 80
    sh_pc,         \* "start" before the call of SpecShape, "done" after it
    sh_op,         \* the overlay function called
    sh_image,      \* original_img: <<height, width, channels>>
    sh_map,        \* the map of the class: [given, shape] as gc_heatmap
    sh_outcome,    \* "returned" or "raised"
    sh_result,     \* <<height, width, channels>> of the returned image
    current_image_path,  \* MainWindow fields; "None" is None, "unset" an
    current_report,      \* attribute that was never assigned.  A report,
    current_predictions, \* predictions and heatmap data are named by the
    heatmap_data,        \* image they were computed for
    summary_text,        \* the result shown in the result widgets
    analyze_button,      \* state of the button: "normal" or "disabled"
    save_report_button,
    progress,            \* the progress bar is running
    threads,             \* the analysis threads started, in order
    after_queue,         \* callbacks scheduled with root.after(0, ...)
    saved,               \* arguments of the report the last step wrote
    handled,             \* kind of the result the last step's callback got
    arrays,        \* the arrays of the process, by identity: arrays[a] is
                   \* the history of array a, what it was made by followed
                   \* by what was drawn on it in place
    al_heatmaps,   \* the collection: class name -> identity of its map,
                   \* 0 for a None value
    al_predictions,
    al_calls,      \* number of overlay calls made
    al_site,       \* the function called last
    al_before,     \* number of arrays there were before the last call
    al_ret,        \* identity of the array the last call returned, 0 if
                   \* it raised
    mm_pc,         \* "start" before ModelManager.__init__
    original_pathologies, \* line 13
    mm_pathologies,       \* self.pathologies, line 25
    mm_disease,    \* the class generate_all_heatmaps looked up last
    mm_target_idx, \* line 38
    mm_mapped,     \* the class passed the test of line 39
    rp_pc,         \* position in generate_report: "idle", "heatmaps",
                   \* "returned" or "raised"
    temp_files,    \* self.temp_files
    rp_disk,       \* the temporary files that exist on disk
    rp_created,    \* number of temporary files created so far
    rp_todo,       \* predictions whose heatmap page is still to build
    rp_calls       \* number of generate_report calls

batchVars == <<pc, predictions, pathologies, num_outputs, sorted_preds,
               loop_i, heatmaps, ranked, calls, processed, gen_raised>>

heatVars == <<hm_pc, upsampled, heatmap>>

combVars == <<cb_pc, avg_heatmap, total_weight, combined>>

peakVars == <<pk_site, peak>>

geoVars == <<geo_site, map_shape, img_shape, center, radius, text_pos>>

multiVars == <<mc_pc, mc_predictions, mc_heatmaps, max_circles,
               sorted_diseases, mc_i, drawn>>

\* The variables of the drawing operations (the overlays), as one group
circleVars == <<gc_calls, gc_site, gc_channel, original_img, gc_disease, gc_heatmap,
                gc_color, gc_center, gc_radius, gc_result, gc_first, gc_rng>>

overlayVars == <<ov_pc, ov_alpha, ov_channel, ov_cast, ov_img, ov_map,
                 original_hr, heatmap_hr, colored, overlay, ov_result>>

shapeVars == <<sh_pc, sh_op, sh_image, sh_map, sh_outcome, sh_result>>

drawVars == <<geoVars, multiVars, circleVars, overlayVars, shapeVars>>

windowVars == <<current_image_path, current_report, current_predictions,
                heatmap_data, summary_text, analyze_button,
                save_report_button, progress, threads, after_queue, saved,
                handled>>

\* The variables of the application around the heatmap pipeline
aliasVars == <<arrays, al_heatmaps, al_predictions, al_calls, al_site,
               al_before, al_ret>>

managerVars == <<mm_pc, original_pathologies, mm_pathologies, mm_disease,
                 mm_target_idx, mm_mapped>>

reportVars == <<rp_pc, temp_files, rp_disk, rp_created, rp_todo, rp_calls>>

appVars == <<windowVars, aliasVars, managerVars, reportVars>>

vars == <<batchVars, heatVars, combVars, peakVars, drawVars, appVars>>

\* What the actions of one operation family leave alone
notBatch == <<appVars, heatVars, combVars, peakVars, drawVars>>

notHeat == <<appVars, batchVars, combVars, peakVars, drawVars>>

notComb == <<appVars, batchVars, heatVars, peakVars, drawVars>>

notPeak == <<appVars, batchVars, heatVars, combVars, drawVars>>

\* ------------------------------------------------------------ helpers
Range(s) == {s[i] : i \in 1..Len(s)}

\* Values of a grid (a function over cells)
Range1(g) == {g[c] : c \in DOMAIN g}

Names(ps) == {ps[i].name : i \in 1..Len(ps)}

\* dict.get(name, default) on a dict kept as a sequence of items
ProbOf(ps, name) ==
    LET hit == {i \in 1..Len(ps) : ps[i].name = name}
    IN  IF hit = {} THEN 0 ELSE ps[CHOOSE i \in hit : TRUE].prob

\* Position of a name in the dict's iteration order
PosOf(ps, name) == CHOOSE i \in 1..Len(ps) : ps[i].name = name

Items == [name : Diseases, prob : 0..MaxProb]

\* All dicts over Diseases: item sequences with pairwise distinct keys
PredictionSets ==
    UNION {{ps \in [1..n -> Items] :
               \A i, j \in 1..n : i # j => ps[i].name # ps[j].name}
           : n \in 0..Cardinality(Diseases)}

KnownLists == UNION {[1..n -> Diseases] : n \in 0..MaxKnown}

\* ------------------------------------------------ generate_all_heatmaps
\* sorted(items, key=prob, reverse=True): Python's sort is stable, also
\* with reverse=True, so an item goes in behind every item whose key is
\* greater than or equal to its own.
InsertUnstable(s, e) ==
    LET before == {i \in 1..Len(s) : s[i].prob > e.prob}
        k == Cardinality(before)
    IN  SubSeq(s, 1, k) \o <<e>> \o SubSeq(s, k + 1, Len(s))

InsertSorted(s, e) ==
    LET before == {i \in 1..Len(s) : s[i].prob >= e.prob}
        k == Cardinality(before)
    IN  SubSeq(s, 1, k) \o <<e>> \o SubSeq(s, k + 1, Len(s))

RECURSIVE SortedDesc(_)
SortedDesc(ps) ==
    IF ps = <<>> THEN <<>>
    ELSE InsertSorted(SortedDesc(SubSeq(ps, 1, Len(ps) - 1)), ps[Len(ps)])

\* pathologies.index(disease): the 0-based position of the first equal
\* element, or ValueError
ListIndex(lst, x) ==
    LET hit == {i \in 1..Len(lst) : lst[i] = x}
    IN  IF hit = {}
        THEN [exc |-> "ValueError", val |-> 0]
        ELSE [exc |-> "none",
              val |-> (CHOOSE i \in hit : \A j \in hit : i <= j) - 1]

\* line 39: 0 <= target_idx < len(self.model.pathologies)
InRangeNoUpperBound(target_idx, n) == 0 <= target_idx

InRangeOffByOne(target_idx, n) == 0 <= target_idx /\ target_idx <= n

InRange(target_idx, n) == 0 <= target_idx /\ target_idx < n

\* line 41: except ValueError
CaughtNothing(exc) == FALSE

Caught(exc) == exc = "ValueError"

\* line 43: [disease for disease, _ in sorted_preds]
RankedOfMapped(sp) ==
    LET kept == SelectSeq(sp, LAMBDA it : it.name \in DOMAIN heatmaps)
    IN  [i \in 1..Len(kept) |-> kept[i].name]

RankedNames(sp) == [i \in 1..Len(sp) |-> sp[i].name]

\* dict store heatmaps[disease] = m
DictPut(d, k, v) == [x \in DOMAIN d \cup {k} |-> IF x = k THEN v ELSE d[x]]

EmptyDict == [x \in {} |-> 0]

\* --------------------------------------------------------------- maps
\* Cells of an array of shape (h, w), as <<row, col>>, 0-based
Cells(h, w) == (0..(h - 1)) \X (0..(w - 1))

MapCells == Cells(MapH, MapW)

UniformGrid(v) == [c \in MapCells |-> v]

\* The grid that is `base` everywhere but in the cells of S, where it is f
SparseGrid(base, S, f) == [c \in MapCells |-> IF c \in S THEN f[c] ELSE base]

\* Cell sets in which a map of the input families leaves its uniform value
SpikeSets == {T \in SUBSET MapCells : Cardinality(T) <= MaxSpikes}

GridMax(g) == CHOOSE v \in Range1(g) : \A u \in Range1(g) : u <= v

NoMap == [num |-> <<>>, den |-> 1]

\* The state of an operation that no call is in
BatchIdle ==
    /\ pc = "idle"
    /\ predictions = <<>>
    /\ pathologies = <<>>
    /\ num_outputs = 0
    /\ sorted_preds = <<>>
    /\ loop_i = 0
    /\ heatmaps = EmptyDict
    /\ ranked = <<>>
    /\ calls = <<>>
    /\ processed = <<>>
    /\ gen_raised = {}

HeatIdle ==
    /\ hm_pc = "idle"
    /\ upsampled = <<>>
    /\ heatmap = NoMap

CombIdle ==
    /\ cb_pc = "idle"
    /\ avg_heatmap = NoMap
    /\ total_weight = 0
    /\ combined = NoMap

PeakIdle ==
    /\ pk_site = "none"
    /\ peak = <<0, 0>>

GeoIdle ==
    /\ geo_site = "none"
    /\ map_shape = <<0, 0>>
    /\ img_shape = <<0, 0>>
    /\ center = <<0, 0>>
    /\ radius = 0
    /\ text_pos = <<0, 0>>

MultiIdle ==
    /\ mc_pc = "idle"
    /\ mc_predictions = <<>>
    /\ mc_heatmaps = <<>>
    /\ max_circles = 0
    /\ sorted_diseases = <<>>
    /\ mc_i = 0
    /\ drawn = <<>>

\* The map argument None, and the map of a key the collection lacks
NoneMap == [given |-> "None", shape |-> <<0, 0>>, peak |-> <<0, 0>>]

AbsentMap == [given |-> "absent", shape |-> <<0, 0>>, peak |-> <<0, 0>>]

\* The image with no pixels
NoImage == [h |-> 0, w |-> 0, px |-> <<>>]

CircleIdle ==
    /\ gc_calls = 0
    /\ gc_site = "none"
    /\ gc_channel = 0
    /\ original_img = NoImage
    /\ gc_disease = "none"
    /\ gc_heatmap = NoneMap
    /\ gc_color = <<0, 0, 0, 0>>
    /\ gc_center = <<0, 0>>
    /\ gc_radius = 0
    /\ gc_result = NoImage
    /\ gc_first = NoImage
    /\ gc_rng = 0

OverlayIdle ==
    /\ ov_pc = "idle"
    /\ ov_alpha = 0
    /\ ov_channel = 0
    /\ ov_cast = "none"
    /\ ov_img = <<>>
    /\ ov_map = <<>>
    /\ original_hr = <<>>
    /\ heatmap_hr = <<>>
    /\ colored = <<>>
    /\ overlay = <<>>
    /\ ov_result = <<>>

ShapeIdle ==
    /\ sh_pc = "idle"
    /\ sh_op = "none"
    /\ sh_image = <<0, 0, 0>>
    /\ sh_map = NoneMap
    /\ sh_outcome = "none"
    /\ sh_result = <<0, 0, 0>>

\* No report written yet
NoSave ==
    [kind |-> "none", image_path |-> "None", predictions |-> "None",
     heatmaps |-> "None"]

\* lines 9-16: the window after __init__ (and create_widgets, lines 35-36)
WindowIdle ==
    /\ current_image_path = "None"
    /\ current_report = "None"
    /\ current_predictions = "unset"
    /\ heatmap_data = "unset"
    /\ summary_text = "None"
    /\ analyze_button = "disabled"
    /\ save_report_button = "disabled"
    /\ progress = FALSE
    /\ threads = <<>>
    /\ after_queue = <<>>
    /\ saved = NoSave
    /\ handled = "none"

\* No array allocated, no overlay function called
AliasIdle ==
    /\ arrays = <<>>
    /\ al_heatmaps = EmptyDict
    /\ al_predictions = <<>>
    /\ al_calls = 0
    /\ al_site = "none"
    /\ al_before = 0
    /\ al_ret = 0

\* No ModelManager constructed
ManagerIdle ==
    /\ mm_pc = "start"
    /\ original_pathologies = <<>>
    /\ mm_pathologies = <<>>
    /\ mm_disease = "none"
    /\ mm_target_idx = 0
    /\ mm_mapped = FALSE

\* lines 82-86: the report generator after __init__
ReportIdle ==
    /\ rp_pc = "idle"
    /\ temp_files = <<>>
    /\ rp_disk = {}
    /\ rp_created = 0
    /\ rp_todo = 0
    /\ rp_calls = 0

AppIdle == WindowIdle /\ AliasIdle /\ ManagerIdle /\ ReportIdle

DrawIdle ==
    GeoIdle /\ MultiIdle /\ CircleIdle /\ OverlayIdle /\ ShapeIdle

BatchInit ==
    /\ AppIdle
    /\ HeatIdle
    /\ CombIdle
    /\ PeakIdle
    /\ DrawIdle
    /\ pc = "start"
    /\ predictions \in PredictionSets
    /\ pathologies \in KnownLists
    /\ num_outputs \in 0..MaxKnown
    /\ sorted_preds = <<>>
    /\ loop_i = 0
    /\ heatmaps = EmptyDict
    /\ ranked = <<>>
    /\ calls = <<>>
    /\ processed = <<>>
    /\ gen_raised = {}

\* lines 34-35
GenerateAllEnter ==
    /\ pc = "start"
    /\ sorted_preds' = SortedDesc(predictions)
    /\ heatmaps' = EmptyDict
    /\ loop_i' = 1
    /\ pc' = "loop"
    /\ UNCHANGED <<predictions, pathologies, num_outputs, ranked, calls,
                   processed, gen_raised>>
    /\ UNCHANGED notBatch

\* lines 36-42, one iteration of the for loop.  `gen` is what the call of
\* generate_heatmap does if the iteration reaches it.
LoopBody(gen) ==
    LET disease == sorted_preds[loop_i].name
        found == ListIndex(pathologies, disease)
        target_idx == found.val
    IN  /\ processed' = Append(processed, disease)
        /\ IF found.exc # "none"
           THEN \* line 38 raised
                /\ UNCHANGED <<heatmaps, calls, gen_raised>>
                /\ IF Caught(found.exc)
                   THEN loop_i' = loop_i + 1 /\ pc' = "loop"
                   ELSE loop_i' = loop_i /\ pc' = "raised"
           ELSE IF ~InRange(target_idx, num_outputs)
           THEN \* line 39 false
                /\ UNCHANGED <<heatmaps, calls, gen_raised>>
                /\ loop_i' = loop_i + 1 /\ pc' = "loop"
           ELSE \* line 40
                /\ calls' = Append(calls, target_idx)
                /\ IF gen = "ok"
                   THEN /\ heatmaps' = DictPut(heatmaps, disease, target_idx)
                        /\ UNCHANGED gen_raised
                        /\ loop_i' = loop_i + 1 /\ pc' = "loop"
                   ELSE /\ UNCHANGED heatmaps
                        /\ IF Caught(gen)
                           THEN /\ gen_raised' = gen_raised \cup {disease}
                                /\ loop_i' = loop_i + 1 /\ pc' = "loop"
                           ELSE /\ UNCHANGED gen_raised
                                /\ loop_i' = loop_i /\ pc' = "raised"

LoopIteration ==
    /\ pc = "loop"
    /\ loop_i <= Len(sorted_preds)
    /\ \E gen \in GenOutcomes : LoopBody(gen)
    /\ UNCHANGED <<predictions, pathologies, num_outputs, sorted_preds,
                   ranked>>
    /\ UNCHANGED notBatch

\* line 43
GenerateAllReturn ==
    /\ pc = "loop"
    /\ loop_i > Len(sorted_preds)
    /\ ranked' = RankedNames(sorted_preds)
    /\ pc' = "done"
    /\ UNCHANGED <<predictions, pathologies, num_outputs, sorted_preds,
                   loop_i, heatmaps, calls, processed, gen_raised>>
    /\ UNCHANGED notBatch

BatchNext == GenerateAllEnter \/ LoopIteration \/ GenerateAllReturn

SpecBatch == BatchInit /\ [][BatchNext]_vars

\* ------------------------------------------------------- claims C1..C6
\* Index (0-based) of the first occurrence of a name in the known list;
\* only used where the name occurs.
FirstIndex(n) ==
    (CHOOSE i \in 1..Len(pathologies) :
        /\ pathologies[i] = n
        /\ \A j \in 1..Len(pathologies) : pathologies[j] = n => i <= j) - 1

Known(n) == \E i \in 1..Len(pathologies) : pathologies[i] = n

\* The batch stopped with an exception while the loop body ran for the
\* k-th processed class.
RaisedAt(k) == pc = "raised" /\ k = Len(processed)

\* a ranks before b: higher confidence, or equal confidence and earlier in
\* the iteration order of the prediction set
Outranks(a, b) ==
    \/ ProbOf(predictions, a) > ProbOf(predictions, b)
    \/ /\ ProbOf(predictions, a) = ProbOf(predictions, b)
       /\ PosOf(predictions, a) < PosOf(predictions, b)

\* C1: a predicted class that is not in the known-classes list is skipped
\* without raising: it gets no map and no generate_heatmap call, the batch
\* never stops at it, and once the call has returned every class of the
\* prediction set has been processed.
C1_AbsentClassSkipped ==
    /\ \A k \in 1..Len(processed) :
          ~Known(processed[k]) =>
              /\ processed[k] \notin DOMAIN heatmaps
              /\ ~RaisedAt(k)
    /\ Len(calls) <= Cardinality({k \in 1..Len(processed) : Known(processed[k])})
    /\ pc = "done" => Range(processed) = Names(predictions)

C1_Witness ==
    /\ pc = "done"
    /\ \E j, k \in 1..Len(processed) :
          /\ j < k
          /\ ~Known(processed[j])
          /\ processed[k] \in DOMAIN heatmaps

\* C2: a failure of generate_heatmap for one class, whatever the exception,
\* does not abort the batch (the call never ends by raising).
C2_GenFailureNeverAborts == pc # "raised"

\* C3: the ranked list is the prediction set's names in descending
\* confidence order, equal confidences in the input's iteration order, and
\* the classes are processed in that same order.
C3_RankedDescendingStable ==
    /\ pc = "done" =>
          /\ Range(ranked) = Names(predictions)
          /\ \A i, j \in 1..Len(ranked) :
                i < j => Outranks(ranked[i], ranked[j])
          /\ processed = ranked
    /\ \A i, j \in 1..Len(processed) :
          i < j => Outranks(processed[i], processed[j])
    /\ \A k \in 1..Len(processed) :
          \A n \in Names(predictions) \ Range(processed) :
              Outranks(processed[k], n)

C3_Witness ==
    /\ pc = "done"
    /\ Len(ranked) = 3
    /\ ProbOf(predictions, ranked[2]) = ProbOf(predictions, ranked[3])
    /\ ProbOf(predictions, ranked[1]) > ProbOf(predictions, ranked[2])
    /\ PosOf(predictions, ranked[1]) = 3

\* C4: the ranked list holds every class name of the prediction set exactly
\* once, the skipped ones included; its length is the size of the set.
C4_RankedHoldsEveryClassOnce ==
    pc = "done" =>
        /\ Len(ranked) = Len(predictions)
        /\ \A n \in Names(predictions) :
              Cardinality({i \in 1..Len(ranked) : ranked[i] = n}) = 1

C4_Witness ==
    /\ pc = "done"
    /\ \E i \in 1..Len(ranked) : ranked[i] \notin DOMAIN heatmaps
    /\ \E i \in 1..Len(ranked) : ranked[i] \in DOMAIN heatmaps

\* Classes of the prediction set that are in the known list with an index
\* inside the classifier's class count.
Eligible ==
    {n \in Names(predictions) : Known(n) /\ FirstIndex(n) < num_outputs}

\* C5 as stated: after the call returns, the keys of the map collection are
\* exactly the eligible classes.
C5_KeysAreExactlyEligible == pc = "done" => DOMAIN heatmaps = Eligible

\* C5 amended: no key outside the eligible classes is ever present, and
\* after the call returns the keys are exactly the eligible classes whose
\* generate_heatmap call did not raise.
C5_KeysAreEligibleAndGenerated ==
    /\ DOMAIN heatmaps \subseteq Eligible
    /\ pc = "done" => DOMAIN heatmaps = Eligible \ gen_raised

C5_Witness ==
    /\ pc = "done"
    /\ gen_raised # {}
    /\ DOMAIN heatmaps # {}
    /\ Names(predictions) \ Eligible # {}

\* C6: generate_heatmap is never invoked with a target index outside the
\* classifier's output range, and a class whose index is out of range is
\* skipped: it gets no map and the batch does not stop at it.
C6_IndexValidatedBeforeAttribution ==
    /\ \A k \in 1..Len(calls) : 0 <= calls[k] /\ calls[k] < num_outputs
    /\ \A k \in 1..Len(processed) :
          (Known(processed[k]) /\ FirstIndex(processed[k]) >= num_outputs) =>
              /\ processed[k] \notin DOMAIN heatmaps
              /\ ~RaisedAt(k)

C6_Witness ==
    /\ pc = "done"
    /\ calls # <<>>
    /\ \E k \in 1..Len(processed) :
          /\ Known(processed[k])
          /\ FirstIndex(processed[k]) >= num_outputs

\* ----------------------------------------------------- generate_heatmap
\* line 17
blur_factor == 5

\* cv2.getGaussianKernel(5, sigma <= 0): the fixed table 1/16, 4/16, 6/16,
\* 4/16, 1/16, here as numerators
GaussianKernel == <<1, 4, 6, 4, 1>>

KernelSum ==
    GaussianKernel[1] + GaussianKernel[2] + GaussianKernel[3]
        + GaussianKernel[4] + GaussianKernel[5]

\* cv2.borderInterpolate(p, len, BORDER_REFLECT_101), the default border of
\* GaussianBlur: ... 2 1 | 0 1 2 ... n-1 | n-2 n-3 ...
RECURSIVE BorderInterpolate(_, _)
BorderInterpolate(p, len) ==
    IF 0 <= p /\ p < len THEN p
    ELSE IF len = 1 THEN 0
    ELSE IF p < 0 THEN BorderInterpolate(0 - p, len)
    ELSE BorderInterpolate(2 * (len - 1) - p, len)

\* One pass of the separable filter along the columns of each row, then
\* along the rows of each column; each pass multiplies the denominator by
\* KernelSum.
Tap(k) == k - (blur_factor \div 2) - 1

BlurRows(g, h, w) ==
    [c \in Cells(h, w) |->
        LET at(k) == GaussianKernel[k]
                        * g[<<c[1], BorderInterpolate(c[2] + Tap(k), w)>>]
        IN  at(1) + at(2) + at(3) + at(4) + at(5)]

BlurCols(g, h, w) ==
    [c \in Cells(h, w) |->
        LET at(k) == GaussianKernel[k]
                        * g[<<BorderInterpolate(c[1] + Tap(k), h), c[2]>>]
        IN  at(1) + at(2) + at(3) + at(4) + at(5)]

\* line 29 / line 63: cv2.GaussianBlur(m, (blur_factor, blur_factor), 0)
GaussianBlur(m, h, w) ==
    [num |-> BlurCols(BlurRows(m.num, h, w), h, w),
     den |-> m.den * KernelSum * KernelSum]

\* line 26: np.maximum(heatmap, 0)
ClipNothing(g) == g

Clip(g) == [c \in DOMAIN g |-> IF g[c] > 0 THEN g[c] ELSE 0]

\* line 27: heatmap /= np.max(heatmap) if np.max(heatmap) != 0 else 1
NormalizeUnguarded(g) == [num |-> g, den |-> GridMax(g)]

Normalize(g) ==
    [num |-> g, den |-> IF GridMax(g) # 0 THEN GridMax(g) ELSE 1]

AttrValues == (0 - 1)..AttrMax

HeatInit ==
    /\ AppIdle
    /\ BatchIdle
    /\ CombIdle
    /\ PeakIdle
    /\ DrawIdle
    /\ hm_pc = "start"
    /\ \E base \in AttrValues, S \in SpikeSets :
          \E f \in [S -> AttrValues] : upsampled = SparseGrid(base, S, f)
    /\ heatmap = NoMap

\* lines 21-27: attribution, upsampling (the grid `upsampled`), clipping and
\* normalisation
GenerateHeatmapNormalize ==
    /\ hm_pc = "start"
    /\ heatmap' = Normalize(Clip(upsampled))
    /\ hm_pc' = "normalized"
    /\ UNCHANGED upsampled
    /\ UNCHANGED notHeat

\* lines 29-30: smoothing and return
GenerateHeatmapBlur ==
    /\ hm_pc = "normalized"
    /\ heatmap' = GaussianBlur(heatmap, MapH, MapW)
    /\ hm_pc' = "returned"
    /\ UNCHANGED upsampled
    /\ UNCHANGED notHeat

HeatNext == GenerateHeatmapNormalize \/ GenerateHeatmapBlur

SpecHeatmap == HeatInit /\ [][HeatNext]_vars

\* ------------------------------------------------------- claims C7, C8
HasPositive(g) == \E c \in DOMAIN g : g[c] > 0

\* C7: every map returned by generate_heatmap has exactly the target
\* dimensions and every cell value v satisfies 0 <= v <= 1, whatever the
\* sign of the attribution values.
C7_ReturnedMapInUnitRange ==
    hm_pc = "returned" =>
        /\ DOMAIN heatmap.num = Cells(MapH, MapW)
        /\ heatmap.den > 0
        /\ \A c \in DOMAIN heatmap.num :
              0 <= heatmap.num[c] /\ heatmap.num[c] <= heatmap.den

C7_Witness ==
    /\ hm_pc = "returned"
    /\ \E c \in MapCells : upsampled[c] < 0
    /\ \E c \in MapCells : upsampled[c] > 1
    /\ \E c \in MapCells : 0 < heatmap.num[c] /\ heatmap.num[c] < heatmap.den

C8_WitnessNoPositive ==
    /\ hm_pc = "returned"
    /\ ~HasPositive(upsampled)
    /\ \E c \in MapCells : upsampled[c] < 0

\* ---------------------------------------------- create_combined_heatmap
\* The classes a map collection is keyed by in SpecCombined
CombinedKeys == {"Pneumonia", "COVID"}

\* Maps of a collection: values k / AttrMax, all zero, all one, or one in a
\* single cell
UnitGrids ==
    {UniformGrid(0), UniformGrid(AttrMax)}
        \cup {[c \in MapCells |-> IF c = d THEN AttrMax ELSE 0] : d \in MapCells}

UnitMaps == {[num |-> g, den |-> AttrMax] : g \in UnitGrids}

MapCollections == UNION {[S -> UnitMaps] : S \in SUBSET CombinedKeys}

\* lines 54-57: the loop over heatmaps.items(); weight is
\* predictions.get(disease, 0).  The result is the pair (sum of num * weight
\* per cell, total_weight); the maps share one denominator.
RECURSIVE Accumulate(_, _, _)
Accumulate(keys, hmaps, preds) ==
    IF keys = {}
    THEN [sum |-> UniformGrid(0), total |-> 0]
    ELSE LET disease == CHOOSE k \in keys : TRUE
             rest == Accumulate(keys \ {disease}, hmaps, preds)
             weight == ProbOf(preds, disease)
         IN  [sum |-> [c \in MapCells |->
                          rest.sum[c] + hmaps[disease].num[c] * weight],
              total |-> rest.total + weight]

\* lines 59-60: if total_weight > 0: avg_heatmap /= total_weight
DivisorUnguarded(total) == total

Divisor(total) == IF total > 0 THEN total ELSE 1

CombInit ==
    /\ AppIdle
    /\ HeatIdle
    /\ PeakIdle
    /\ DrawIdle
    /\ pc = "idle"
    /\ predictions \in {ps \in PredictionSets : Len(ps) <= Cardinality(CombinedKeys)}
    /\ heatmaps \in MapCollections
    /\ pathologies = <<>>
    /\ num_outputs = 0
    /\ sorted_preds = <<>>
    /\ loop_i = 0
    /\ ranked = <<>>
    /\ calls = <<>>
    /\ processed = <<>>
    /\ gen_raised = {}
    /\ cb_pc = "start"
    /\ avg_heatmap = NoMap
    /\ total_weight = 0
    /\ combined = NoMap

\* lines 47-48: an empty collection returns a copy of the image
CombinedEmpty ==
    /\ cb_pc = "start"
    /\ DOMAIN heatmaps = {}
    /\ cb_pc' = "returned_copy"
    /\ UNCHANGED <<avg_heatmap, total_weight, combined>>
    /\ UNCHANGED notComb

\* lines 51-60
CombinedAverage ==
    /\ cb_pc = "start"
    /\ DOMAIN heatmaps # {}
    /\ LET acc == Accumulate(DOMAIN heatmaps, heatmaps, predictions)
       IN  /\ total_weight' = acc.total
           /\ avg_heatmap' = [num |-> acc.sum,
                              den |-> AttrMax * Divisor(acc.total)]
    /\ cb_pc' = "averaged"
    /\ UNCHANGED combined
    /\ UNCHANGED notComb

\* lines 63-65: smoothing, then overlay_heatmap(original_img, avg_heatmap)
CombinedSmoothOverlay ==
    /\ cb_pc = "averaged"
    /\ combined' = GaussianBlur(avg_heatmap, MapH, MapW)
    /\ cb_pc' = "returned_overlay"
    /\ UNCHANGED <<avg_heatmap, total_weight>>
    /\ UNCHANGED notComb

CombNext == CombinedEmpty \/ CombinedAverage \/ CombinedSmoothOverlay

SpecCombined == CombInit /\ [][CombNext]_vars

\* ------------------------------------------------------------ claim C9
RECURSIVE SetSum(_)
SetSum(f) ==
    IF DOMAIN f = {} THEN 0
    ELSE LET k == CHOOSE x \in DOMAIN f : TRUE
         IN  f[k] + SetSum([x \in DOMAIN f \ {k} |-> f[x]])

\* Sum of the confidences of the classes of the collection
ConfidenceSum == SetSum([k \in DOMAIN heatmaps |-> ProbOf(predictions, k)])

\* Sum over the collection of (numerator of the map at cell c) * confidence
WeightedSum(c) ==
    SetSum([k \in DOMAIN heatmaps |->
               heatmaps[k].num[c] * ProbOf(predictions, k)])

C9_WitnessWeighted ==
    /\ cb_pc = "returned_overlay"
    /\ ConfidenceSum > 1
    /\ Cardinality(DOMAIN heatmaps) = 2
    /\ \E c \in MapCells : 0 < combined.num[c] /\ combined.num[c] < combined.den

\* ------------------------------------------------------ the peak lookup
\* Values k / AttrMax of the maps whose peak is looked up
PeakValues == 0..AttrMax

\* The flattened view np.argmax scans: C (row-major) order
Ravel(g, h, w) ==
    [i \in 1..(h * w) |-> g[<<(i - 1) \div w, (i - 1) % w>>]]

\* np.argmax keeps the first maximum: a later element replaces the best
\* one only when it is greater
ReplacesOnTie(v, best) == v >= best

Replaces(v, best) == v > best

RECURSIVE ArgMaxScan(_, _, _)
ArgMaxScan(flat, i, best) ==
    IF i > Len(flat) THEN best - 1
    ELSE ArgMaxScan(flat, i + 1,
                    IF Replaces(flat[i], flat[best]) THEN i ELSE best)

\* np.argmax(heatmap): 0-based flat index
ArgMax(g, h, w) == ArgMaxScan(Ravel(g, h, w), 2, 1)

\* np.unravel_index(idx, (h, w)) -> (y, x)
UnravelIndex(idx, h, w) == <<idx \div w, idx % w>>

\* y, x = np.unravel_index(np.argmax(heatmap), heatmap.shape)
LocatePeak(m, h, w) == UnravelIndex(ArgMax(m.num, h, w), h, w)

PeakInit ==
    /\ AppIdle
    /\ BatchIdle
    /\ CombIdle
    /\ DrawIdle
    /\ hm_pc = "idle"
    /\ upsampled = <<>>
    /\ \E base \in PeakValues, S \in SpikeSets :
          \E f \in [S -> PeakValues] :
              heatmap = [num |-> SparseGrid(base, S, f), den |-> AttrMax]
    /\ pk_site = "none"
    /\ peak = <<0, 0>>

\* heatmap_generator.py line 127
GenerateCircleOverlayPeak ==
    /\ peak' = LocatePeak(heatmap, MapH, MapW)
    /\ pk_site' = "generate_circle_overlay"
    /\ UNCHANGED notPeak

\* heatmap_generator.py line 113
MultiCircleOverlayPeak ==
    /\ peak' = LocatePeak(heatmap, MapH, MapW)
    /\ pk_site' = "create_multi_circle_overlay"
    /\ UNCHANGED notPeak

\* medical_report_generator.py line 682
DrawCircleOverlayPeak ==
    /\ peak' = LocatePeak(heatmap, MapH, MapW)
    /\ pk_site' = "_draw_circle_overlay"
    /\ UNCHANGED notPeak

PeakNext ==
    GenerateCircleOverlayPeak \/ MultiCircleOverlayPeak \/ DrawCircleOverlayPeak

SpecPeak == PeakInit /\ [][PeakNext]_vars

\* ----------------------------------------------------------- claim C10
\* Cell a comes no later than cell b in row-major scan order
RowMajorLeq(a, b) == a[1] < b[1] \/ (a[1] = b[1] /\ a[2] <= b[2])

\* C10: the peak coordinate is a cell holding the maximum of the map, and
\* the first such cell in row-major order, whichever of the three functions
\* looked it up (so the coordinate is determined by the map alone).
C10_PeakIsFirstMaximum ==
    pk_site # "none" =>
        /\ peak \in MapCells
        /\ \A c \in MapCells : heatmap.num[c] <= heatmap.num[peak]
        /\ \A c \in MapCells :
              heatmap.num[c] = heatmap.num[peak] => RowMajorLeq(peak, c)

C10_Witness ==
    /\ pk_site = "_draw_circle_overlay"
    /\ peak # <<0, 0>>
    /\ \E c \in MapCells :
          /\ c # peak
          /\ heatmap.num[c] = heatmap.num[peak]
          /\ c[2] < peak[2]
    /\ \E c \in MapCells : heatmap.num[c] < heatmap.num[peak]

\* ------------------------------------------- geometry of the circle overlays
MapDims == (1..MaxMapDim) \cup {7}

ImgDims == (1..MaxImgDim) \cup {224}

\* int(v) of a quotient n / d with d > 0: truncation toward zero
TruncDiv(n, d) == IF n >= 0 THEN n \div d ELSE 0 - ((0 - n) \div d)

\* int(v * to_dim / from_dim): lines 114, 115 and 128
RescaleSwapped(v, to_dim, from_dim) == TruncDiv(v * from_dim, to_dim)

RescaleCoord(v, to_dim, from_dim) == TruncDiv(v * to_dim, from_dim)

\* line 128: center = (int(x * W / w), int(y * H / h))
CircleCenter(pk, mshape, ishape) ==
    <<RescaleCoord(pk[2], ishape[2], mshape[2]),
      RescaleCoord(pk[1], ishape[1], mshape[1])>>

\* line 129: radius = int(min(original_img.shape[:2]) * 0.15)
CircleRadius(ishape) ==
    LET smaller == IF ishape[1] < ishape[2] THEN ishape[1] ELSE ishape[2]
    IN  TruncDiv(smaller * 15, 100)

\* lines 114-115: text_pos = (int(x * W / w), int(y * H / h - 20))
LabelAnchor(pk, mshape, ishape) ==
    <<RescaleCoord(pk[2], ishape[2], mshape[2]),
      TruncDiv(pk[1] * ishape[1] - 20 * mshape[1], mshape[1])>>

GeoInit ==
    /\ AppIdle
    /\ BatchIdle
    /\ HeatIdle
    /\ CombIdle
    /\ pk_site = "none"
    /\ MultiIdle
    /\ CircleIdle
    /\ OverlayIdle
    /\ ShapeIdle
    /\ geo_site = "none"
    /\ map_shape \in MapDims \X MapDims
    /\ img_shape \in ImgDims \X ImgDims
    /\ peak \in Cells(map_shape[1], map_shape[2])
    /\ center = <<0, 0>>
    /\ radius = 0
    /\ text_pos = <<0, 0>>

notGeo == <<appVars, batchVars, heatVars, combVars, pk_site, peak, multiVars,
           circleVars, overlayVars, shapeVars>>

\* generate_circle_overlay, lines 127-129
CircleGeometry ==
    /\ center' = CircleCenter(peak, map_shape, img_shape)
    /\ radius' = CircleRadius(img_shape)
    /\ geo_site' = "generate_circle_overlay"
    /\ UNCHANGED <<map_shape, img_shape, text_pos>>
    /\ UNCHANGED notGeo

\* create_multi_circle_overlay, lines 111-115: the disc of the call at line
\* 111 and the label anchor
MultiLabelGeometry ==
    /\ center' = CircleCenter(peak, map_shape, img_shape)
    /\ radius' = CircleRadius(img_shape)
    /\ text_pos' = LabelAnchor(peak, map_shape, img_shape)
    /\ geo_site' = "create_multi_circle_overlay"
    /\ UNCHANGED <<map_shape, img_shape>>
    /\ UNCHANGED notGeo

GeoNext == CircleGeometry \/ MultiLabelGeometry

SpecGeometry == GeoInit /\ [][GeoNext]_vars

\* ---------------------------------------------------- claims C11, C12, C15
Abs(v) == IF v >= 0 THEN v ELSE 0 - v

\* c is an integer nearest to n / d (d > 0)
IsNearest(c, n, d) == 2 * Abs(c * d - n) <= d

\* C11: the image coordinate of a peak (row, col) is row * H / h and
\* col * W / w, each rounded to the nearest integer pixel.
C11_CentreRoundedToNearest ==
    geo_site # "none" =>
        /\ IsNearest(center[1], peak[2] * img_shape[2], map_shape[2])
        /\ IsNearest(center[2], peak[1] * img_shape[1], map_shape[1])

\* C12: rescaling the image coordinate back with the same rule, shapes
\* swapped, lands within one pixel of the peak in each axis, for every map
\* shape no larger than the image shape (7 x 7 to 224 x 224 included).
C12_RoundTripWithinOnePixel ==
    (/\ geo_site # "none"
     /\ map_shape[1] <= img_shape[1]
     /\ map_shape[2] <= img_shape[2]) =>
        /\ Abs(RescaleCoord(center[1], map_shape[2], img_shape[2]) - peak[2]) <= 1
        /\ Abs(RescaleCoord(center[2], map_shape[1], img_shape[1]) - peak[1]) <= 1

C12_Witness ==
    /\ geo_site = "generate_circle_overlay"
    /\ map_shape = <<7, 7>>
    /\ img_shape = <<224, 224>>
    /\ peak = <<3, 5>>
    /\ center = <<160, 96>>

C12_WitnessOff ==
    /\ geo_site # "none"
    /\ map_shape[2] < img_shape[2]
    /\ RescaleCoord(center[1], map_shape[2], img_shape[2]) = peak[2] - 1

\* C15: the label anchor of a drawn region is above the top edge of its
\* disc: anchor row <= centre row - radius.
C15_LabelAboveDisc ==
    geo_site = "create_multi_circle_overlay" =>
        text_pos[2] <= center[2] - radius

\* C28: the disc centre lies inside the image, and so does the label anchor
\* of create_multi_circle_overlay (points are (column, row)).
InsideImage(pt, ishape) ==
    /\ 0 <= pt[1] /\ pt[1] < ishape[2]
    /\ 0 <= pt[2] /\ pt[2] < ishape[1]

C28_CentreAndAnchorInsideImage ==
    /\ geo_site # "none" => InsideImage(center, img_shape)
    /\ geo_site = "create_multi_circle_overlay"
          => InsideImage(text_pos, img_shape)

\* ------------------------------------------- create_multi_circle_overlay
\* Shapes of the maps and of the image in SpecMulti: a map cell is a
\* 10 x 10 block of image pixels, so the discs of two different peaks do not
\* touch and the discs of one peak coincide.
MultiMapShape == <<MapH, MapW>>

MultiImgShape == <<10 * MapH, 10 * MapW>>

\* Peaks of the maps of the collection: two opposite corners
MultiPeaks == {<<0, 0>>, <<MapH - 1, MapW - 1>>}

\* The collections: every set of keys, every key with the peak of its map
MultiCollections == UNION {[K -> MultiPeaks] : K \in SUBSET Diseases}

\* line 107: if i >= max_circles or prob < 0.1: break
LoopBreaksOffByOne(i, prob, mc) == i > mc \/ 10 * prob < MaxProb

LoopBreaks(i, prob, mc) == i >= mc \/ 10 * prob < MaxProb

\* The disc that the call at line 111 blends into `result`, lines 127-129
DiscOf(item, pk) ==
    [disease |-> item.name,
     prob    |-> item.prob,
     center  |-> CircleCenter(pk, MultiMapShape, MultiImgShape),
     radius  |-> CircleRadius(MultiImgShape)]

MultiInit ==
    /\ AppIdle
    /\ BatchIdle
    /\ HeatIdle
    /\ CombIdle
    /\ PeakIdle
    /\ GeoIdle
    /\ CircleIdle
    /\ OverlayIdle
    /\ ShapeIdle
    /\ mc_pc = "start"
    /\ mc_predictions \in PredictionSets
    /\ mc_heatmaps \in MultiCollections
    /\ max_circles \in 0..MaxCircles
    /\ sorted_diseases = <<>>
    /\ mc_i = 0
    /\ drawn = <<>>

notMulti == <<appVars, batchVars, heatVars, combVars, peakVars, geoVars, circleVars,
             overlayVars, shapeVars>>

\* lines 96-97: if not heatmaps: return original_img.copy()
MultiCircleEmpty ==
    /\ mc_pc = "start"
    /\ DOMAIN mc_heatmaps = {}
    /\ mc_pc' = "done"
    /\ UNCHANGED <<mc_predictions, mc_heatmaps, max_circles,
                   sorted_diseases, mc_i, drawn>>
    /\ UNCHANGED notMulti

\* lines 100-103
MultiCircleEnter ==
    /\ mc_pc = "start"
    /\ DOMAIN mc_heatmaps # {}
    /\ sorted_diseases' = SortedDesc(mc_predictions)
    /\ mc_i' = 0
    /\ mc_pc' = "loop"
    /\ UNCHANGED <<mc_predictions, mc_heatmaps, max_circles, drawn>>
    /\ UNCHANGED notMulti

\* lines 106-118: one pass of the loop body.  circle_overlay is the previous
\* result with the disc blended over it and the label written on it, and it
\* becomes the new result: a later disc lies over every earlier one.
MultiCircleIteration ==
    /\ mc_pc = "loop"
    /\ mc_i < Len(sorted_diseases)
    /\ LET item == sorted_diseases[mc_i + 1]
       IN  IF LoopBreaks(mc_i, item.prob, max_circles)
           THEN /\ mc_pc' = "done"
                /\ UNCHANGED <<mc_i, drawn>>
           ELSE /\ mc_pc' = "loop"
                /\ mc_i' = mc_i + 1
                /\ drawn' = IF item.name \in DOMAIN mc_heatmaps
                               THEN Append(drawn,
                                        DiscOf(item, mc_heatmaps[item.name]))
                               ELSE drawn
    /\ UNCHANGED <<mc_predictions, mc_heatmaps, max_circles, sorted_diseases>>
    /\ UNCHANGED notMulti

\* line 106 with the ranking used up, then line 120
MultiCircleExhausted ==
    /\ mc_pc = "loop"
    /\ mc_i = Len(sorted_diseases)
    /\ mc_pc' = "done"
    /\ UNCHANGED <<mc_predictions, mc_heatmaps, max_circles,
                   sorted_diseases, mc_i, drawn>>
    /\ UNCHANGED notMulti

MultiNext ==
    \/ MultiCircleEmpty
    \/ MultiCircleEnter
    \/ MultiCircleIteration
    \/ MultiCircleExhausted

SpecMulti == MultiInit /\ [][MultiNext]_vars

\* ------------------------------------------------------- claims C13, C14
DrawnNames == {drawn[k].disease : k \in 1..Len(drawn)}

\* Two discs share a pixel: the centres are no further apart than the sum
\* of the radii
DiscsOverlap(a, b) ==
    (a.center[1] - b.center[1]) * (a.center[1] - b.center[1])
      + (a.center[2] - b.center[2]) * (a.center[2] - b.center[2])
        <= (a.radius + b.radius) * (a.radius + b.radius)

\* C13: wherever the discs of two drawn classes overlap, the disc of the
\* higher-confidence class is on top of (drawn after) the disc of the
\* lower-confidence class.
C13_HigherConfidenceOnTop ==
    mc_pc = "done" =>
        \A k, l \in 1..Len(drawn) :
            (k < l /\ DiscsOverlap(drawn[k], drawn[l]))
                => drawn[k].prob <= drawn[l].prob

\* The rank (0-based) of a class in the descending ranking of all
\* predictions
RankOf(d) == PosOf(SortedDesc(mc_predictions), d) - 1

\* C14: a region is drawn for a class exactly if it is among the first
\* max_circles entries of the ranking of all predictions, has confidence
\* >= 0.1 and has a map; never more than max_circles regions are drawn.
C14_DrawnIffTopRankedWithMap ==
    mc_pc = "done" =>
        /\ \A d \in Diseases :
              d \in DrawnNames <=>
                  /\ d \in Names(mc_predictions)
                  /\ RankOf(d) < max_circles
                  /\ 10 * ProbOf(mc_predictions, d) >= MaxProb
                  /\ d \in DOMAIN mc_heatmaps
        /\ Len(drawn) <= max_circles

\* The top-ranked class has no map and uses up the only slot: a class
\* behind it with a map and confidence >= 0.1 is not drawn.
C14_Witness ==
    /\ mc_pc = "done"
    /\ max_circles = 1
    /\ Len(sorted_diseases) >= 2
    /\ sorted_diseases[1].name \notin DOMAIN mc_heatmaps
    /\ sorted_diseases[2].name \in DOMAIN mc_heatmaps
    /\ 10 * sorted_diseases[2].prob >= MaxProb
    /\ drawn = <<>>

\* ----------------------------------------------- generate_circle_overlay
\* Sides of the images of SpecCircle: 7 is the smallest side with a radius
\* of 1 (line 129), the smaller sides give the radius 0.
CanvasDims == {1, 7}

\* Values of the pixels of the input images
PixelLevels == {0, 130, 255}

\* The values of random.randint(0, 255) the model draws
RandLevels == {0, 255}

\* lines 132-140: the class-to-colour table (BGR and alpha)
colors ==
    [Pneumonia    |-> <<0, 0, 255, 128>>,
     Tuberculosis |-> <<0, 255, 255, 128>>,
     COVID        |-> <<0, 165, 255, 128>>,
     Atelectasis  |-> <<255, 0, 0, 128>>,
     Cardiomegaly |-> <<0, 255, 0, 128>>,
     Pneumothorax |-> <<255, 0, 255, 128>>]

\* line 141: colors.get(disease, (randint, randint, randint, 128)); rnd is
\* the triple the three random.randint calls of this evaluation return
ColorOf(disease, rnd) ==
    IF disease \in DOMAIN colors
    THEN colors[disease]
    ELSE <<rnd[1], rnd[2], rnd[3], 128>>

\* The pixels cv2.circle(..., center, radius, ..., -1) fills.  c is a cell
\* <<row, col>>, ctr is (x, y).  For the radii 0 and 1 of SpecCircle the
\* filled shape is the centre pixel and the centre pixel with its four
\* neighbours.
InDisc(c, ctr, r) ==
    (c[2] - ctr[1]) * (c[2] - ctr[1]) + (c[1] - ctr[2]) * (c[1] - ctr[2])
        <= r * r

\* lines 143-144: pixel c of the copy with the filled circle
PaintCircle(img, c, ctr, r, color, ch) ==
    IF InDisc(c, ctr, r) THEN color[ch] ELSE img.px[c]

\* n / d rounded to the nearest integer (d > 0), halves upwards; the
\* quotients of the blend of line 148 are never halfway between two
\* integers (255 is odd)
RoundDiv(n, d) == (2 * n + d) \div (2 * d)

\* saturate_cast<uchar>
Saturate(v) == IF v < 0 THEN 0 ELSE IF v > 255 THEN 255 ELSE v

\* One channel of cv2.addWeighted(p, a / 255, q, 1 - a / 255, 0)
AddWeightedOpaqueBase(p, a, q) == Saturate(RoundDiv(a * p + 255 * q, 255))

AddWeighted(p, a, q) == Saturate(RoundDiv(a * p + (255 - a) * q, 255))

\* lines 143-148: the image with the disc blended in
CircleOverlay(img, ctr, r, color, ch) ==
    [img EXCEPT !.px =
        [c \in DOMAIN img.px |->
            AddWeighted(PaintCircle(img, c, ctr, r, color, ch), color[4],
                        img.px[c])]]

\* The maps handed in: their shape and the cell of their first maximum
CircleMaps == [given : {"map"}, shape : {<<MapH, MapW>>}, peak : MapCells]

CircleInit ==
    /\ AppIdle
    /\ BatchIdle
    /\ HeatIdle
    /\ CombIdle
    /\ PeakIdle
    /\ GeoIdle
    /\ MultiIdle
    /\ OverlayIdle
    /\ ShapeIdle
    /\ gc_calls = 0
    /\ gc_site = "none"
    /\ gc_channel \in 1..3
    /\ \E h \in CanvasDims, w \in CanvasDims :
         \E even \in PixelLevels, odd \in PixelLevels :
            original_img =
                [h |-> h, w |-> w,
                 px |-> [c \in Cells(h, w) |->
                            IF (c[1] + c[2]) % 2 = 0 THEN even ELSE odd]]
    /\ gc_disease \in Diseases
    /\ gc_heatmap \in CircleMaps \cup {NoneMap, AbsentMap}
    /\ gc_color = <<0, 0, 0, 0>>
    /\ gc_center = <<0, 0>>
    /\ gc_radius = 0
    /\ gc_result = NoImage
    /\ gc_first = NoImage
    /\ gc_rng = 0

notCircle == <<appVars, batchVars, heatVars, combVars, peakVars, geoVars, multiVars,
              overlayVars, shapeVars>>

\* The call returns `image`: lines 124, 91 (a copy) and 150
CircleReturns(site, image) ==
    /\ gc_site' = site
    /\ gc_calls' = gc_calls + 1
    /\ gc_result' = image
    /\ gc_first' = IF gc_calls = 0 THEN image ELSE gc_first
    /\ UNCHANGED <<gc_channel, original_img, gc_disease, gc_heatmap>>
    /\ UNCHANGED notCircle

\* lines 123-124: if heatmap is None: return original_img.copy()
CircleOfNone(site) ==
    /\ gc_heatmap = NoneMap
    /\ CircleReturns(site, original_img)
    /\ UNCHANGED <<gc_color, gc_center, gc_radius, gc_rng>>

\* line 141: the default handed to colors.get is built before the lookup,
\* so random.randint is called three times whatever the class name
RandintCalls == 3

\* lines 127-150
CircleOfMap(site) ==
    /\ gc_heatmap \in CircleMaps
    /\ gc_rng' = gc_rng + RandintCalls
    /\ gc_center' = CircleCenter(gc_heatmap.peak, gc_heatmap.shape,
                                 <<original_img.h, original_img.w>>)
    /\ gc_radius' = CircleRadius(<<original_img.h, original_img.w>>)
    /\ \E rnd \in RandLevels \X RandLevels \X RandLevels :
         gc_color' = ColorOf(gc_disease, rnd)
    /\ CircleReturns(site, CircleOverlay(original_img, gc_center', gc_radius',
                                         gc_color', gc_channel))

\* generate_circle_overlay(original_img, disease, heatmap), lines 122-150
GenerateCircleOverlay ==
    /\ gc_calls < 2
    /\ gc_heatmap # AbsentMap
    /\ \/ CircleOfNone("generate_circle_overlay")
       \/ CircleOfMap("generate_circle_overlay")

\* get_circle_overlay(original_img, disease, heatmaps), lines 88-92
GetCircleOverlay ==
    /\ gc_calls < 2
    /\ \/ /\ gc_heatmap = AbsentMap
          /\ CircleReturns("get_circle_overlay", original_img)
          /\ UNCHANGED <<gc_color, gc_center, gc_radius, gc_rng>>
       \/ CircleOfNone("get_circle_overlay")
       \/ CircleOfMap("get_circle_overlay")

CircleNext == GenerateCircleOverlay \/ GetCircleOverlay

SpecCircle == CircleInit /\ [][CircleNext]_vars

\* ------------------------------------------------------- claims C16, C17, C22
\* C16: for a class name absent from the colour table, two calls with the
\* same image, class name and map return identical images.
C16_FallbackColourStable ==
    (/\ gc_calls = 2
     /\ gc_heatmap \in CircleMaps
     /\ gc_disease \notin DOMAIN colors) => gc_first = gc_result

\* C22: no circle overlay call changes process-wide mutable state: the
\* generator of the `random` module is where it was before the calls.
C22_NoProcessWideStateChanged == gc_rng = 0

\* C17: every pixel of the returned image outside the disc equals the
\* pixel of the input image.
C17_OutsideDiscUnchanged ==
    gc_calls > 0 =>
        /\ DOMAIN gc_result.px = DOMAIN original_img.px
        /\ \A c \in DOMAIN original_img.px :
              (gc_heatmap \in CircleMaps => ~InDisc(c, gc_center, gc_radius))
                  => gc_result.px[c] = original_img.px[c]

\* A disc of radius 1 was blended in, pixels of value 130 lie outside
\* it and a pixel inside it changed.
C17_Witness ==
    /\ gc_calls > 0
    /\ gc_heatmap \in CircleMaps
    /\ gc_radius = 1
    /\ \E c \in DOMAIN original_img.px :
          /\ ~InDisc(c, gc_center, gc_radius)
          /\ original_img.px[c] = 130
    /\ \E c \in DOMAIN original_img.px :
          /\ InDisc(c, gc_center, gc_radius)
          /\ gc_result.px[c] # original_img.px[c]

\* ------------------------------------------------------- overlay_heatmap
\* The model follows images and maps of one row: every row of the upscaled
\* arrays is then the same, and the vertical passes of the resizes leave
\* the values as the horizontal passes made them.  Rows are sequences.
resolution_factor == 16

\* alpha (line 67) is ov_alpha / AlphaDen: 0, the default 0.5, and 1
AlphaDen == 2

\* Pixel values of the input rows, and the values of a map in units of
\* 1 / AttrMax: a map handed in has values from 0 to 1
RowLevels == {0, 255}

HeatLevels == 0..AttrMax

Clamp(i, lo, hi) == IF i < lo THEN lo ELSE IF i > hi THEN hi ELSE i

\* cv2.INTER_CUBIC at scale 1 / resolution_factor: pixel dx of the result
\* lies at (dx + 0.5) / resolution_factor - 0.5 of the source, which is
\* SrcPos(dx) / CubicUnit
CubicUnit == 2 * resolution_factor

SrcPos(dx) == 2 * dx + 1 - resolution_factor

\* The weights of the four taps at the fraction t = m / CubicUnit, for the
\* bicubic kernel with A = -0.75, in units of 1 / CubicDen:
\*   A t (1 - t)^2,  (A + 2) t^3 - (A + 3) t^2 + 1,  the same of 1 - t,
\*   A t^2 (1 - t)
CubicDen == 4 * CubicUnit * CubicUnit * CubicUnit

CubicInner(m) ==
    5 * m * m * m - 9 * CubicUnit * m * m + CubicDen

CubicWeights(m) ==
    <<0 - 3 * m * (CubicUnit - m) * (CubicUnit - m),
      CubicInner(m),
      CubicInner(CubicUnit - m),
      0 - 3 * m * m * (CubicUnit - m)>>

\* Pixel dx (0-based) of the upscaled row, in units of 1 / CubicDen; taps
\* beyond the ends of the row take the end pixels
CubicPixel(row, dx) ==
    LET sx == SrcPos(dx) \div CubicUnit
        wt == CubicWeights(SrcPos(dx) % CubicUnit)
        tap(k) == row[Clamp(sx + k - 2, 0, Len(row) - 1) + 1]
    IN  wt[1] * tap(1) + wt[2] * tap(2) + wt[3] * tap(3) + wt[4] * tap(4)

\* n / d rounded to the nearest integer, halves to the even one (n >= 0)
RoundHalfEven(n, d) ==
    LET q == n \div d
        twice == 2 * (n % d)
    IN  IF twice < d THEN q
        ELSE IF twice > d THEN q + 1
        ELSE IF q % 2 = 0 THEN q ELSE q + 1

\* line 75: np.uint8(v) of v = n / d.  Inside 0..255 the fraction is cut
\* off; outside, the conversion is undefined and `cast` names what the
\* build does: keep the low eight bits, or stop at the nearest end
CastOutcomes == {"wrap", "saturate"}

ToUint8(n, d, cast) ==
    LET t == TruncDiv(n, d)
    IN  IF t >= 0 /\ t <= 255 THEN t
        ELSE IF cast = "wrap" THEN t % 256
        ELSE Saturate(t)

\* line 76: one channel of cv2.COLORMAP_JET, the ramp
\* 255 * clip(1.5 - |4 v / 255 - ch|, 0, 1) its table samples
ColorMapJet(v, ch) == Saturate(RoundDiv(765 - 2 * Abs(4 * v - 255 * ch), 2))

RECURSIVE RowSum(_, _, _)
RowSum(row, lo, hi) ==
    IF lo > hi THEN 0 ELSE row[lo] + RowSum(row, lo + 1, hi)

\* line 80: cv2.INTER_AREA back to the original width, the mean of every
\* resolution_factor pixels
ResizeArea(row, w) ==
    [x \in 1..w |->
        RoundHalfEven(RowSum(row, resolution_factor * (x - 1) + 1,
                             resolution_factor * x),
                      resolution_factor)]

OverlayInit ==
    /\ AppIdle
    /\ BatchIdle
    /\ HeatIdle
    /\ CombIdle
    /\ PeakIdle
    /\ GeoIdle
    /\ MultiIdle
    /\ CircleIdle
    /\ ShapeIdle
    /\ ov_pc = "start"
    /\ ov_alpha \in 0..AlphaDen
    /\ ov_channel \in 1..3
    /\ ov_cast = "none"
    /\ \E w \in 1..MaxOvW :
          /\ ov_img \in [1..w -> RowLevels]
          /\ ov_map \in [1..w -> HeatLevels]
    /\ original_hr = <<>>
    /\ heatmap_hr = <<>>
    /\ colored = <<>>
    /\ overlay = <<>>
    /\ ov_result = <<>>

notOverlay == <<appVars, batchVars, heatVars, combVars, peakVars, geoVars, multiVars,
               circleVars, shapeVars>>

\* lines 69-73
OverlayResize ==
    /\ ov_pc = "start"
    /\ original_hr' =
          [i \in 1..(resolution_factor * Len(ov_img)) |->
              Saturate(RoundDiv(CubicPixel(ov_img, i - 1), CubicDen))]
    /\ heatmap_hr' =
          [i \in 1..(resolution_factor * Len(ov_img)) |->
              CubicPixel(ov_map, i - 1)]
    /\ ov_pc' = "resized"
    /\ UNCHANGED <<ov_alpha, ov_channel, ov_cast, ov_img, ov_map, colored,
                   overlay, ov_result>>
    /\ UNCHANGED notOverlay

\* A value of 255 * heatmap_hr that np.uint8 cannot hold
Overshoots(v) == TruncDiv(255 * v, CubicDen * AttrMax) \notin 0..255

\* lines 75-76
OverlayColorize ==
    /\ ov_pc = "resized"
    /\ \E cast \in CastOutcomes :
          /\ ov_cast' = IF \E i \in DOMAIN heatmap_hr : Overshoots(heatmap_hr[i])
                        THEN cast ELSE "none"
          /\ colored' =
                [i \in DOMAIN heatmap_hr |->
                    ColorMapJet(ToUint8(255 * heatmap_hr[i],
                                        CubicDen * AttrMax, cast),
                                ov_channel)]
    /\ ov_pc' = "colorized"
    /\ UNCHANGED <<ov_alpha, ov_channel, ov_img, ov_map, original_hr,
                   heatmap_hr, overlay, ov_result>>
    /\ UNCHANGED notOverlay

\* line 78: cv2.addWeighted(original_hr, 1 - alpha, colored, alpha, 0)
OverlayBlend ==
    /\ ov_pc = "colorized"
    /\ overlay' =
          [i \in DOMAIN original_hr |->
              Saturate(RoundHalfEven((AlphaDen - ov_alpha) * original_hr[i]
                                       + ov_alpha * colored[i], AlphaDen))]
    /\ ov_pc' = "blended"
    /\ UNCHANGED <<ov_alpha, ov_channel, ov_cast, ov_img, ov_map,
                   original_hr, heatmap_hr, colored, ov_result>>
    /\ UNCHANGED notOverlay

\* line 80
OverlayReturn ==
    /\ ov_pc = "blended"
    /\ ov_result' = ResizeArea(overlay, Len(ov_img))
    /\ ov_pc' = "done"
    /\ UNCHANGED <<ov_alpha, ov_channel, ov_cast, ov_img, ov_map,
                   original_hr, heatmap_hr, colored, overlay>>
    /\ UNCHANGED notOverlay

OverlayNext ==
    \/ OverlayResize
    \/ OverlayColorize
    \/ OverlayBlend
    \/ OverlayReturn

SpecOverlay == OverlayInit /\ [][OverlayNext]_vars

\* ------------------------------------------------------------ claim C18
\* C18: with alpha = 0 the returned image is identical to the input image,
\* and with alpha = 1 it is the colour-mapped rendering alone.
C18_AlphaZeroIdentityAlphaOnePure ==
    ov_pc = "done" =>
        /\ ov_alpha = 0 => ov_result = ov_img
        /\ ov_alpha = AlphaDen
              => ov_result = ResizeArea(colored, Len(ov_img))

\* The half of C18 about alpha = 1, alone
C18_AlphaOnePure ==
    (ov_pc = "done" /\ ov_alpha = AlphaDen)
        => ov_result = ResizeArea(colored, Len(ov_img))

\* ------------------------------------------------------------ claim C26
\* line 75: the 8-bit value of pixel i of the upscaled map, under the
\* conversion the run took
Uint8Of(i) ==
    ToUint8(255 * heatmap_hr[i], CubicDen * AttrMax,
            IF ov_cast = "none" THEN "saturate" ELSE ov_cast)

\* C26: every 8-bit value fed to the colour map lies in 0..255 and is
\* non-decreasing in the pixel's value of the upscaled map, overshoots of
\* the upscaling included.
C26_Uint8MonotoneNoWrap ==
    ov_pc \in {"colorized", "blended", "done"} =>
        \A i, j \in DOMAIN heatmap_hr :
            /\ Uint8Of(i) \in 0..255
            /\ heatmap_hr[i] <= heatmap_hr[j] => Uint8Of(i) <= Uint8Of(j)

\* ------------------------------------- shapes of the overlay functions
\* An array is followed by <<height, width, channels>>; a two-dimensional
\* array has one channel.
Channels == {1, 3, 4}

\* The shape generate_heatmap gives every map (line 24), and the shape of
\* avg_heatmap (line 51)
MapSide == 224

ShapeMaps ==
    [given : {"map"},
     shape : (MapDims \X MapDims) \cup {<<MapSide, MapSide>>},
     peak  : {<<0, 0>>}]

\* The outcome of a call: the shape of the image it returns, or an
\* exception that leaves it
Returned(shape) == [outcome |-> "returned", shape |-> shape]

Raised == [outcome |-> "raised", shape |-> <<0, 0, 0>>]

\* lines 69-70: high_res_shape, a dsize (width, height)
high_res_shape(img) ==
    <<img[2] * resolution_factor, img[1] * resolution_factor>>

\* line 80: the dsize of the resize back
OriginalDsizeSwapped(img) == <<img[1], img[2]>>

OriginalDsize(img) == <<img[2], img[1]>>

\* cv2.resize(src, dsize): dsize[1] columns and dsize[2] rows
ResizeShape(src, dsize) == <<dsize[2], dsize[1], src[3]>>

\* lines 67-80.  cv2.resize raises for None; cv2.addWeighted raises unless
\* both arrays have the same size and the same number of channels, and
\* `colored` has three channels.
OverlayHeatmapShape(img, mp) ==
    IF mp.given # "map" THEN Raised
    ELSE LET original_hr_shape == ResizeShape(img, high_res_shape(img))
             heatmap_hr_shape ==
                 ResizeShape(<<mp.shape[1], mp.shape[2], 1>>,
                             high_res_shape(img))
             colored_shape ==
                 <<heatmap_hr_shape[1], heatmap_hr_shape[2], 3>>
         IN  IF original_hr_shape # colored_shape THEN Raised
             ELSE Returned(ResizeShape(original_hr_shape, OriginalDsize(img)))

\* lines 122-150: a copy for None; otherwise the blend of the image with
\* its own painted copy
GenerateCircleShape(img, mp) == Returned(img)

\* lines 54-56: avg_heatmap += hmap * weight raises for None and unless
\* the shape of hmap broadcasts to (224, 224)
Accumulates(mp) ==
    /\ mp.given = "map"
    /\ mp.shape[1] \in {1, MapSide}
    /\ mp.shape[2] \in {1, MapSide}

ShapeInit ==
    /\ AppIdle
    /\ BatchIdle
    /\ HeatIdle
    /\ CombIdle
    /\ PeakIdle
    /\ GeoIdle
    /\ MultiIdle
    /\ CircleIdle
    /\ OverlayIdle
    /\ sh_pc = "start"
    /\ sh_op = "none"
    /\ sh_image \in ImgDims \X ImgDims \X Channels
    /\ sh_map \in ShapeMaps \cup {NoneMap, AbsentMap}
    /\ sh_outcome = "none"
    /\ sh_result = <<0, 0, 0>>

notShape == <<appVars, batchVars, heatVars, combVars, peakVars, geoVars, multiVars,
             circleVars, overlayVars>>

\* The call of `op` ends with outcome `out`
ShapeCall(op, out) ==
    /\ sh_pc = "start"
    /\ sh_pc' = "done"
    /\ sh_op' = op
    /\ sh_outcome' = out.outcome
    /\ sh_result' = out.shape
    /\ UNCHANGED <<sh_image, sh_map>>
    /\ UNCHANGED notShape

\* overlay_heatmap(original_img, heatmap), lines 67-80
OverlayHeatmapCall ==
    /\ sh_map # AbsentMap
    /\ ShapeCall("overlay_heatmap", OverlayHeatmapShape(sh_image, sh_map))

\* get_individual_overlay, lines 82-86
GetIndividualOverlayCall ==
    ShapeCall("get_individual_overlay",
              IF sh_map = AbsentMap THEN Returned(sh_image)
              ELSE OverlayHeatmapShape(sh_image, sh_map))

\* get_circle_overlay, lines 88-92
GetCircleOverlayCall ==
    ShapeCall("get_circle_overlay",
              IF sh_map = AbsentMap THEN Returned(sh_image)
              ELSE GenerateCircleShape(sh_image, sh_map))

\* generate_circle_overlay, lines 122-150
GenerateCircleOverlayCall ==
    /\ sh_map # AbsentMap
    /\ ShapeCall("generate_circle_overlay",
                 GenerateCircleShape(sh_image, sh_map))

\* create_multi_circle_overlay, lines 94-120, with the class of the map
\* ranked first with a confidence of 0.1 or more: a copy for the empty
\* collection; line 113 raises for a map that is None
CreateMultiCircleOverlayCall ==
    ShapeCall("create_multi_circle_overlay",
              IF sh_map = AbsentMap THEN Returned(sh_image)
              ELSE IF sh_map = NoneMap THEN Raised
              ELSE GenerateCircleShape(sh_image, sh_map))

\* create_combined_heatmap, lines 45-65: the map handed to overlay_heatmap
\* is avg_heatmap
CreateCombinedHeatmapCall ==
    ShapeCall("create_combined_heatmap",
              IF sh_map = AbsentMap THEN Returned(sh_image)
              ELSE IF ~Accumulates(sh_map) THEN Raised
              ELSE OverlayHeatmapShape(sh_image,
                       [sh_map EXCEPT !.shape = <<MapSide, MapSide>>]))

ShapeNext ==
    \/ OverlayHeatmapCall
    \/ GetIndividualOverlayCall
    \/ GetCircleOverlayCall
    \/ GenerateCircleOverlayCall
    \/ CreateMultiCircleOverlayCall
    \/ CreateCombinedHeatmapCall

SpecShape == ShapeInit /\ [][ShapeNext]_vars

\* ------------------------------------------------------- claims C19, C20
\* C19: every image an overlay function returns has the height, width and
\* channels of the original image.
C19_ResultHasOriginalDimensions ==
    sh_outcome = "returned" => sh_result = sh_image

\* overlay_heatmap returned for an image that is not square and a map of
\* another shape
C19_Witness ==
    /\ sh_outcome = "returned"
    /\ sh_op = "overlay_heatmap"
    /\ sh_image[1] # sh_image[2]
    /\ sh_map.shape # <<sh_image[1], sh_image[2]>>
    /\ sh_result = sh_image

\* C20: a failure of the overlay construction does not reach the caller:
\* the call returns (a copy of the original image).
C20_NoExceptionReachesCaller ==
    sh_pc = "done" => (sh_outcome = "returned" /\ sh_result = sh_image)

\* ------------------------------------------------------------ MainWindow
\* The image files the user can pick
Images == {"a.png", "b.png"}

\* What self.app.analyze(path) does (line 142): it returns a dictionary
\* (with or without heatmaps and the original image), a tuple, or None, or
\* it raises.  There is nothing to analyse for the path None.
NoResult == [kind |-> "none", of |-> "None", heat |-> FALSE]

AnalyzeOutcomes(path) ==
    IF path = "None"
    THEN [kind : {"None", "raised"}, of : {"None"}, heat : {FALSE}]
    ELSE [kind : {"dict"}, of : {path}, heat : BOOLEAN]
           \cup [kind : {"tuple"}, of : {path}, heat : {TRUE}]
           \cup [kind : {"None", "raised"}, of : {"None"}, heat : {FALSE}]

\* lines 140-147: what thread k schedules on the UI thread for a result
WorkerSchedulesNoExcept(k, result) ==
    IF result.kind = "raised" THEN <<>> ELSE <<k>>

WorkerSchedules(k, result) == <<k>>

Running == {k \in 1..Len(threads) : threads[k].stage \in {"started", "analyzing"}}

WindowInit ==
    /\ BatchIdle
    /\ HeatIdle
    /\ CombIdle
    /\ PeakIdle
    /\ DrawIdle
    /\ AliasIdle
    /\ ManagerIdle
    /\ ReportIdle
    /\ WindowIdle

notWindow == <<batchVars, heatVars, combVars, peakVars, drawVars, aliasVars,
               managerVars, reportVars>>

\* load_image, lines 112-121, for a file picked in the dialog.  Image.open
\* raises for a file that is no image, after line 115 has stored the path.
LoadImage ==
    \E file_path \in Images, opens \in BOOLEAN :
        /\ current_image_path' = file_path
        /\ analyze_button' = IF opens THEN "normal" ELSE analyze_button
        /\ UNCHANGED <<current_report, current_predictions, heatmap_data,
                       summary_text, save_report_button, progress, threads,
                       after_queue>>
        /\ saved' = NoSave
        /\ handled' = "none"
        /\ UNCHANGED notWindow

\* analyze_image, lines 123-136: the command of the Analyze button
AnalyzeImage ==
    /\ analyze_button = "normal"
    /\ Len(threads) < MaxAnalyses
    /\ IF current_image_path = "None"
       THEN UNCHANGED <<analyze_button, progress, threads>>
       ELSE /\ analyze_button' = "disabled"
            /\ progress' = TRUE
            /\ threads' = Append(threads,
                   [stage |-> "started", path |-> "None", result |-> NoResult])
    /\ UNCHANGED <<current_image_path, current_report, current_predictions,
                   heatmap_data, summary_text, save_report_button,
                   after_queue>>
    /\ saved' = NoSave
    /\ handled' = "none"
    /\ UNCHANGED notWindow

\* _analyze_thread, line 142: the thread reads self.current_image_path when
\* it gets to run and hands it to self.app.analyze
ThreadAnalyze(k) ==
    /\ k \in 1..Len(threads)
    /\ threads[k].stage = "started"
    /\ threads' = [threads EXCEPT ![k].stage = "analyzing",
                                  ![k].path = current_image_path]
    /\ UNCHANGED <<current_image_path, current_report, current_predictions,
                   heatmap_data, summary_text, analyze_button,
                   save_report_button, progress, after_queue>>
    /\ saved' = NoSave
    /\ handled' = "none"
    /\ UNCHANGED notWindow

\* _analyze_thread, lines 142-147: the analysis ends and the thread
\* schedules the handler; the path it read is of no further use
ThreadFinish(k) ==
    /\ k \in 1..Len(threads)
    /\ threads[k].stage = "analyzing"
    /\ \E result \in AnalyzeOutcomes(threads[k].path) :
          /\ threads' = [threads EXCEPT ![k].stage = "finished",
                                        ![k].path = "None",
                                        ![k].result = result]
          /\ after_queue' = after_queue \o WorkerSchedules(k, result)
    /\ UNCHANGED <<current_image_path, current_report, current_predictions,
                   heatmap_data, summary_text, analyze_button,
                   save_report_button, progress>>
    /\ saved' = NoSave
    /\ handled' = "none"
    /\ UNCHANGED notWindow

\* _handle_analysis_result, lines 149-171, with display_results (lines
\* 390-421) and display_heatmap (line 267), and _handle_analysis_error,
\* lines 173-178: the UI thread runs the first scheduled callback, after
\* which only the kind of the result is kept
HandleCallback ==
    /\ after_queue # <<>>
    /\ LET k == Head(after_queue)
           result == threads[k].result
           shows == result.kind \in {"dict", "tuple"}
       IN  /\ after_queue' = Tail(after_queue)
           /\ threads' = [threads EXCEPT ![k].stage = "handled",
                                         ![k].result = NoResult]
           /\ current_report' = IF shows THEN result.of ELSE current_report
           /\ current_predictions' =
                 IF shows THEN result.of ELSE current_predictions
           /\ summary_text' = IF shows THEN result.of ELSE summary_text
           /\ heatmap_data' =
                 IF shows /\ result.heat THEN result.of ELSE heatmap_data
           /\ save_report_button' =
                 IF shows THEN "normal" ELSE save_report_button
    /\ progress' = FALSE
    /\ analyze_button' = "normal"
    /\ UNCHANGED current_image_path
    /\ saved' = NoSave
    /\ handled' = threads[Head(after_queue)].result.kind
    /\ UNCHANGED notWindow

\* clear_analysis, lines 226-240
ClearAnalysis ==
    /\ current_image_path' = "None"
    /\ current_report' = "None"
    /\ summary_text' = "None"
    /\ analyze_button' = "disabled"
    /\ save_report_button' = "disabled"
    /\ UNCHANGED <<current_predictions, heatmap_data, progress, threads,
                   after_queue>>
    /\ saved' = NoSave
    /\ handled' = "none"
    /\ UNCHANGED notWindow

\* save_report, lines 180-224: the command of the Save Report button, for a
\* file name ending in .pdf or not
SaveReport ==
    /\ save_report_button = "normal"
    /\ current_report # "None"
    /\ \E pdf \in BOOLEAN :
          saved' =
              IF pdf
              THEN [kind |-> "pdf",
                    image_path |-> current_image_path,
                    predictions |-> current_predictions,
                    heatmaps |-> IF heatmap_data = "unset" THEN "None"
                                 ELSE heatmap_data]
              ELSE [kind |-> "txt", image_path |-> "None",
                    predictions |-> "None", heatmaps |-> "None"]
    /\ UNCHANGED <<current_image_path, current_report, current_predictions,
                   heatmap_data, summary_text, analyze_button,
                   save_report_button, progress, threads, after_queue>>
    /\ handled' = "none"
    /\ UNCHANGED notWindow

WindowNext ==
    \/ LoadImage
    \/ AnalyzeImage
    \/ \E k \in 1..MaxAnalyses : ThreadAnalyze(k)
    \/ \E k \in 1..MaxAnalyses : ThreadFinish(k)
    \/ HandleCallback
    \/ ClearAnalysis
    \/ SaveReport

SpecWindow == WindowInit /\ [][WindowNext]_vars

\* A step of some analysis thread
ThreadStep == \E k \in 1..MaxAnalyses : ThreadAnalyze(k) \/ ThreadFinish(k)

\* The scheduler lets a thread that can run take a step, and the Tk main
\* loop runs the callbacks
SpecWindowFair ==
    /\ SpecWindow
    /\ WF_vars(ThreadStep)
    /\ WF_vars(HandleCallback)

\* ------------------------------------------------ claims C21, C23-C25
\* C21: at most one analysis worker thread is running at any time.
C21_AtMostOneWorker == Cardinality(Running) <= 1

\* Callbacks of thread k waiting on the UI thread
Pending(k) == {i \in 1..Len(after_queue) : after_queue[i] = k}

\* Every analysis started so far has had its handler run
AllHandled == \A k \in 1..Len(threads) : threads[k].stage = "handled"

\* C23: every analysis started is handled in the end (after every moment
\* comes one at which all analyses started by then have been handled); its
\* thread schedules exactly one handler, when the analysis has ended; and
\* when a handler has run the progress bar is stopped and the Analyze
\* button is enabled.
C23_EveryAnalysisHandled ==
    /\ []<>AllHandled
    /\ [](\A k \in 1..Len(threads) :
            Cardinality(Pending(k)) =
                IF threads[k].stage = "finished" THEN 1 ELSE 0)
    /\ [][Len(after_queue') < Len(after_queue)
            => (~progress' /\ analyze_button' = "normal")]_vars

\* Two analyses were handled, the last one after it raised, and no report
\* is shown
C23_Witness ==
    /\ Len(threads) = 2
    /\ threads[1].stage = "handled"
    /\ threads[2].stage = "handled"
    /\ handled = "raised"
    /\ current_report = "None"
    /\ ~progress
    /\ analyze_button = "normal"

\* C24: the image path, the predictions and the heatmap data of a PDF
\* report come from the same analysis of the same image.
C24_ReportOfOneImage ==
    saved.kind = "pdf" =>
        /\ saved.predictions = saved.image_path
        /\ saved.heatmaps \in {"None", saved.image_path}

\* C25: the Analyze button is enabled only if an image is loaded, and
\* with no image loaded (after Clear) no result is shown and Save Report
\* is disabled.
C25_ButtonsFollowImage ==
    /\ analyze_button = "normal" => current_image_path # "None"
    /\ current_image_path = "None" =>
          (summary_text = "None" /\ save_report_button = "disabled")

\* ------------------------- identity of the arrays of the overlay functions
\* An operation on arrays is followed by what it does to the arrays of the
\* process and which array it returns: [arrays, ret], ret = 0 when it raises.

\* The caller's image is array 1, the maps of the collection arrays 2 and 3
OriginalImg == 1

MapOf(disease) == IF disease = "Pneumonia" THEN 2 ELSE 3

\* The collections: every set of keys, each key with its map or with None
AliasCollections ==
    {hm \in UNION {[K -> 0..3] : K \in SUBSET CombinedKeys} :
        \A d \in DOMAIN hm : hm[d] \in {0, MapOf(d)}}

\* a.copy() aliased to a itself
CopyAlias(h, a) == [arrays |-> h, ret |-> a]

\* a.copy(), lines 48, 85, 91, 97, 103, 124, 143: a new array with the
\* contents of a
Copy(h, a) == [arrays |-> Append(h, h[a]), ret |-> Len(h) + 1]

\* cv2.resize, np.uint8, cv2.applyColorMap, cv2.addWeighted, np.zeros,
\* cv2.GaussianBlur and hmap * weight: the result is a new array
NewArray(h, made_by) == [arrays |-> Append(h, <<made_by>>), ret |-> Len(h) + 1]

\* cv2.circle (line 144), cv2.putText (line 116), += and /= (lines 56, 60)
\* write into their first operand
InPlace(h, a, op) == [h EXCEPT ![a] = Append(@, op)]

Raises(h) == [arrays |-> h, ret |-> 0]

\* overlay_heatmap, lines 67-80; cv2.resize raises for a None map
OverlayHeatmapArrays(h, img, hmap) ==
    LET original_hr_ == NewArray(h, "resize")
    IN  IF hmap = 0 THEN Raises(original_hr_.arrays)
        ELSE LET heatmap_hr_ == NewArray(original_hr_.arrays, "resize")
                 as_uint8    == NewArray(heatmap_hr_.arrays, "uint8")
                 colored_    == NewArray(as_uint8.arrays, "applyColorMap")
                 overlay_    == NewArray(colored_.arrays, "addWeighted")
             IN  NewArray(overlay_.arrays, "resize")

\* get_individual_overlay, lines 82-86
GetIndividualOverlayArrays(h, img, disease, hms) ==
    IF disease \notin DOMAIN hms THEN Copy(h, img)
    ELSE OverlayHeatmapArrays(h, img, hms[disease])

\* generate_circle_overlay, lines 122-150
GenerateCircleOverlayArrays(h, img, hmap) ==
    IF hmap = 0 THEN Copy(h, img)
    ELSE LET overlay_ == Copy(h, img)
             painted  == InPlace(overlay_.arrays, overlay_.ret, "circle")
         IN  NewArray(painted, "addWeighted")

\* get_circle_overlay, lines 88-92
GetCircleOverlayArrays(h, img, disease, hms) ==
    IF disease \notin DOMAIN hms THEN Copy(h, img)
    ELSE GenerateCircleOverlayArrays(h, img, hms[disease])

\* create_multi_circle_overlay, lines 106-120: the loop from index i on.
\* For a None value line 113 raises: None has no shape.
RECURSIVE MultiLoopArrays(_, _, _, _, _, _)
MultiLoopArrays(h, result, sorted, i, hms, mc) ==
    IF i >= Len(sorted) THEN [arrays |-> h, ret |-> result]
    ELSE LET item == sorted[i + 1]
         IN  IF LoopBreaks(i, item.prob, mc)
                THEN [arrays |-> h, ret |-> result]
             ELSE IF item.name \notin DOMAIN hms
                THEN MultiLoopArrays(h, result, sorted, i + 1, hms, mc)
             ELSE LET circle_overlay ==
                          GenerateCircleOverlayArrays(h, result, hms[item.name])
                  IN  IF hms[item.name] = 0
                         THEN Raises(circle_overlay.arrays)
                      ELSE MultiLoopArrays(
                              InPlace(circle_overlay.arrays,
                                      circle_overlay.ret, "putText"),
                              circle_overlay.ret, sorted, i + 1, hms, mc)

\* create_multi_circle_overlay, lines 94-120
CreateMultiCircleOverlayArrays(h, img, hms, preds, mc) ==
    IF DOMAIN hms = {} THEN Copy(h, img)
    ELSE LET result == Copy(h, img)
         IN  MultiLoopArrays(result.arrays, result.ret, SortedDesc(preds), 0,
                             hms, mc)

\* create_combined_heatmap, lines 45-65: hmap * weight raises for a None
\* value
CreateCombinedHeatmapArrays(h, img, hms, preds) ==
    IF DOMAIN hms = {} THEN Copy(h, img)
    ELSE LET avg == NewArray(h, "zeros")
         IN  IF \E d \in DOMAIN hms : hms[d] = 0 THEN Raises(avg.arrays)
             ELSE LET summed  == InPlace(avg.arrays, avg.ret, "+=")
                      total   == SetSum([d \in DOMAIN hms |-> ProbOf(preds, d)])
                      divided == IF total > 0
                                    THEN InPlace(summed, avg.ret, "/=")
                                    ELSE summed
                      blurred == NewArray(divided, "GaussianBlur")
                  IN  OverlayHeatmapArrays(blurred.arrays, img, blurred.ret)

AliasInit ==
    /\ BatchIdle
    /\ HeatIdle
    /\ CombIdle
    /\ PeakIdle
    /\ DrawIdle
    /\ WindowIdle
    /\ ManagerIdle
    /\ ReportIdle
    /\ arrays = <<<<"image">>, <<"map">>, <<"map">>>>
    /\ al_heatmaps \in AliasCollections
    /\ al_predictions \in {ps \in PredictionSets : Len(ps) <= 2}
    /\ al_calls = 0
    /\ al_site = "none"
    /\ al_before = 0
    /\ al_ret = 0

notAlias == <<batchVars, heatVars, combVars, peakVars, drawVars, windowVars,
              managerVars, reportVars>>

\* A call of `site` that does `done`
AliasCall(site, done) ==
    /\ al_calls < 2
    /\ al_site' = site
    /\ al_calls' = al_calls + 1
    /\ al_before' = Len(arrays)
    /\ arrays' = done.arrays
    /\ al_ret' = done.ret
    /\ UNCHANGED <<al_heatmaps, al_predictions>>
    /\ UNCHANGED notAlias

\* The map handed to a function that takes one: a map of the collection or
\* None
MapArguments == {0} \cup {al_heatmaps[d] : d \in DOMAIN al_heatmaps}

OverlayHeatmapAlias ==
    \E hmap \in MapArguments :
        AliasCall("overlay_heatmap",
                  OverlayHeatmapArrays(arrays, OriginalImg, hmap))

GetIndividualOverlayAlias ==
    \E disease \in Diseases :
        AliasCall("get_individual_overlay",
                  GetIndividualOverlayArrays(arrays, OriginalImg, disease,
                                             al_heatmaps))

GetCircleOverlayAlias ==
    \E disease \in Diseases :
        AliasCall("get_circle_overlay",
                  GetCircleOverlayArrays(arrays, OriginalImg, disease,
                                         al_heatmaps))

GenerateCircleOverlayAlias ==
    \E hmap \in MapArguments :
        AliasCall("generate_circle_overlay",
                  GenerateCircleOverlayArrays(arrays, OriginalImg, hmap))

CreateMultiCircleOverlayAlias ==
    \E mc \in 0..MaxCircles :
        AliasCall("create_multi_circle_overlay",
                  CreateMultiCircleOverlayArrays(arrays, OriginalImg,
                                                 al_heatmaps, al_predictions,
                                                 mc))

CreateCombinedHeatmapAlias ==
    AliasCall("create_combined_heatmap",
              CreateCombinedHeatmapArrays(arrays, OriginalImg, al_heatmaps,
                                          al_predictions))

AliasNext ==
    \/ OverlayHeatmapAlias
    \/ GetIndividualOverlayAlias
    \/ GetCircleOverlayAlias
    \/ GenerateCircleOverlayAlias
    \/ CreateMultiCircleOverlayAlias
    \/ CreateCombinedHeatmapAlias

SpecAlias == AliasInit /\ [][AliasNext]_vars

\* ------------------------------------------------------------ claim C27
\* C27: after any overlay calls the caller's image and every map of the
\* collection are as they were, and the array a call returns did not exist
\* before the call: it is no input and no result of an earlier call.
C27_InputsUntouchedResultNew ==
    al_calls > 0 =>
        /\ arrays[OriginalImg] = <<"image">>
        /\ \A d \in CombinedKeys : arrays[MapOf(d)] = <<"map">>
        /\ al_ret # 0 => al_ret > al_before

\* Second call: create_multi_circle_overlay has drawn a disc and a label
\* on its own arrays; first call: a fallback path returned a copy
C27_Witness ==
    /\ al_calls = 2
    /\ al_site = "create_multi_circle_overlay"
    /\ al_ret > al_before
    /\ arrays[al_ret] = <<"addWeighted", "putText">>
    /\ \E a \in 4..al_before : arrays[a] = <<"image", "circle">>
    /\ arrays[4] = <<"image">>

\* ------------------------------------------------------------ ModelManager
\* Class names the classifier may list, among them names that
\* dataset_diseases lists as well
ClassifierNames == {"Atelectasis", "Pneumonia", "COVID", "Tuberculosis"}

\* self.model.pathologies of the classifier loaded at line 10
ClassifierLists == UNION {[1..n -> ClassifierNames] : n \in 0..MaxKnown}

\* lines 16-22
dataset_diseases ==
    <<"COVID", "Lung_Opacity", "NORMAL", "PNEUMONIA", "Tuberculosis">>

\* lines 27-28 without the test of line 27
AppendAlways(lst, disease) == Append(lst, disease)

\* lines 27-28: if disease not in self.pathologies: append
AppendIfMissing(lst, disease) ==
    IF disease \in Range(lst) THEN lst ELSE Append(lst, disease)

\* lines 25-28: the loop over the first n dataset diseases
RECURSIVE CombinePathologies(_, _)
CombinePathologies(original, n) ==
    IF n = 0 THEN original
    ELSE AppendIfMissing(CombinePathologies(original, n - 1),
                         dataset_diseases[n])

\* The known-classes list handed to generate_all_heatmaps is the list of the
\* ModelManager, and the classifier of the HeatmapGenerator is its model
PathologiesArgument == mm_pathologies

ManagerInit ==
    /\ BatchIdle
    /\ HeatIdle
    /\ CombIdle
    /\ PeakIdle
    /\ DrawIdle
    /\ WindowIdle
    /\ AliasIdle
    /\ ReportIdle
    /\ mm_pc = "start"
    /\ original_pathologies \in ClassifierLists
    /\ mm_pathologies = <<>>
    /\ mm_disease = "none"
    /\ mm_target_idx = 0
    /\ mm_mapped = FALSE

notManager == <<batchVars, heatVars, combVars, peakVars, drawVars, windowVars,
                aliasVars, reportVars>>

\* ModelManager.__init__, lines 8-28
ModelManagerInit ==
    /\ mm_pc = "start"
    /\ mm_pathologies' =
          CombinePathologies(original_pathologies, Len(dataset_diseases))
    /\ mm_pc' = "constructed"
    /\ UNCHANGED <<original_pathologies, mm_disease, mm_target_idx, mm_mapped>>
    /\ UNCHANGED notManager

\* generate_all_heatmaps, lines 37-42, for one class of the Prediction Set:
\* predict gives every name of self.pathologies a score (lines 47, 65-67)
LookupClass ==
    /\ mm_pc # "start"
    /\ \E disease \in Range(mm_pathologies) \cup {"Normal"} :
          LET found == ListIndex(PathologiesArgument, disease)
          IN  /\ mm_disease' = disease
              /\ mm_target_idx' = found.val
              /\ mm_mapped' = (/\ ~Caught(found.exc)
                               /\ InRange(found.val, Len(original_pathologies)))
    /\ mm_pc' = "looked up"
    /\ UNCHANGED <<original_pathologies, mm_pathologies>>
    /\ UNCHANGED notManager

ManagerNext == ModelManagerInit \/ LookupClass

SpecManager == ManagerInit /\ [][ManagerNext]_vars

\* ------------------------------------------------------------ claim C29
\* The dataset diseases the classifier does not list, in their order
MissingDiseases ==
    LET Missing(d) == \A i \in 1..Len(original_pathologies) :
                          original_pathologies[i] # d
    IN  SelectSeq(dataset_diseases, Missing)

\* C29: self.pathologies is the classifier's list followed by the dataset
\* diseases it lacks, each once; and a class that receives a map is the
\* class at the looked-up index of the classifier's list.
C29_ClassifierListThenMissing ==
    /\ mm_pc # "start" =>
          mm_pathologies = original_pathologies \o MissingDiseases
    /\ mm_mapped =>
          original_pathologies[mm_target_idx + 1] = mm_disease

C29_Witness ==
    /\ mm_pc = "looked up"
    /\ original_pathologies = <<"Pneumonia", "COVID">>
    /\ mm_pathologies = <<"Pneumonia", "COVID", "Lung_Opacity", "NORMAL",
                          "PNEUMONIA", "Tuberculosis">>
    /\ mm_disease = "COVID"
    /\ mm_target_idx = 1
    /\ mm_mapped

\* ------------------------------------------------ MedicalReportGenerator
\* The temporary files of the process are numbered in the order
\* tempfile.NamedTemporaryFile(delete=False) creates them.

\* What happens on the overlay path of one heatmap page, lines 749-780:
\*   "none"     line 749 is false, or _draw_circle_overlay gave None twice
\*   "unsaved"  the file is created (759) and Image.save raises (760)
\*   "broken"   the file is created and recorded (761), then Image.open or
\*              RLImage raises (762-777)
\*   "added"    the image is in the story (778)
OverlayPaths == {"none", "unsaved", "broken", "added"}

\* What happens in _create_heatmap_placeholder, lines 1063-1104:
\*   "nofile"     an exception before line 1084
\*   "unrecorded" the file is created (1084), then savefig or RLImage raises
\*   "recorded"   line 1097 is reached
PlaceholderPaths == {"nofile", "unrecorded", "recorded"}

\* The temporary files one heatmap page creates: [created, recorded], the
\* number of files made and which of them (by order) reach temp_files
PageFiles(overlay_path, placeholder_path) ==
    LET first  == IF overlay_path = "none" THEN <<>>
                  ELSE <<overlay_path # "unsaved">>
        second == IF overlay_path = "added" \/ placeholder_path = "nofile"
                     THEN <<>>
                  ELSE <<placeholder_path = "recorded">>
    IN  first \o second

\* line 1441: self.temp_files = []
Forget(files) == <<>>

ReportInit ==
    /\ BatchIdle
    /\ HeatIdle
    /\ CombIdle
    /\ PeakIdle
    /\ DrawIdle
    /\ WindowIdle
    /\ AliasIdle
    /\ ManagerIdle
    /\ rp_pc = "idle"
    /\ temp_files = <<>>
    /\ rp_disk = {}
    /\ rp_created = 0
    /\ rp_todo = 0
    /\ rp_calls = 0

notReport == <<batchVars, heatVars, combVars, peakVars, drawVars, windowVars,
               aliasVars, managerVars>>

\* generate_report, lines 1230-1263: the document, the story and the first
\* four sections, none of which is inside a try
GenerateReportEnter ==
    /\ rp_pc \in {"idle", "returned", "raised"}
    /\ rp_calls < MaxReports
    /\ rp_calls' = rp_calls + 1
    /\ \E n \in 0..MaxFindings, raises \in BOOLEAN :
          IF raises THEN rp_pc' = "raised" /\ rp_todo' = 0
          ELSE rp_pc' = "heatmaps" /\ rp_todo' = n
    /\ UNCHANGED <<temp_files, rp_disk, rp_created>>
    /\ UNCHANGED notReport

\* create_heatmap_analysis, lines 727-805: the page of one prediction.  The
\* paragraphs after line 784 are outside the try of line 750.
HeatmapPage ==
    /\ rp_pc = "heatmaps"
    /\ rp_todo > 0
    /\ \E overlay_path \in OverlayPaths, placeholder_path \in PlaceholderPaths,
          raises \in BOOLEAN :
          LET made == PageFiles(overlay_path, placeholder_path)
              name(i) == rp_created + i
          IN  /\ rp_created' = rp_created + Len(made)
              /\ rp_disk' = rp_disk \cup {name(i) : i \in 1..Len(made)}
              /\ temp_files' =
                    temp_files \o
                    SelectSeq([i \in 1..Len(made) |-> name(i)],
                              LAMBDA f : made[f - rp_created])
              /\ IF raises THEN rp_pc' = "raised" /\ rp_todo' = 0
                 ELSE rp_pc' = "heatmaps" /\ rp_todo' = rp_todo - 1
    /\ UNCHANGED rp_calls
    /\ UNCHANGED notReport

\* lines 1268-1282: the last sections and doc.build, then
\* _cleanup_temp_files (lines 1433-1441), where a failure of os.remove is
\* swallowed by the bare except
ReportBuild ==
    /\ rp_pc = "heatmaps"
    /\ rp_todo = 0
    /\ \E raises \in BOOLEAN :
          IF raises
          THEN /\ rp_pc' = "raised"
               /\ UNCHANGED <<temp_files, rp_disk>>
          ELSE /\ rp_pc' = "returned"
               /\ \E stuck \in SUBSET (Range(temp_files) \cap rp_disk) :
                     rp_disk' = (rp_disk \ Range(temp_files)) \cup stuck
               /\ temp_files' = Forget(temp_files)
    /\ UNCHANGED <<rp_created, rp_todo, rp_calls>>
    /\ UNCHANGED notReport

ReportNext == GenerateReportEnter \/ HeatmapPage \/ ReportBuild

SpecReport == ReportInit /\ [][ReportNext]_vars

\* ------------------------------------------------------------ claim C30
\* C30: every temporary file on disk is recorded in temp_files, and when
\* generate_report has exited, by return or by exception, no temporary file
\* is left on disk and temp_files is empty.
C30_TempFilesCleanedOnEveryExit ==
    /\ rp_disk \subseteq Range(temp_files)
    /\ rp_pc \in {"returned", "raised"} =>
          (rp_disk = {} /\ temp_files = <<>>)

====
